---- MODULE Spec2Model ----
(* A state-machine model of the AirQual dashboard: the AQI category       *)
(* mapper and recommendation table (utils.py, recommendations.py), the    *)
(* AQI fetcher (data.py), the auth module (auth.py), the persistence      *)
(* layer (database.py) and the Streamlit pages (app.py, pages/).          *)
EXTENDS Integers, Sequences, FiniteSets, TLC

VARIABLES
    call,              \* the latest application of a pure function
    fetch,             \* the latest get_current_aqi call: provider behaviour and result
    users,             \* table users: username -> row
    user_preferences,  \* table user_preferences: username -> row
    aqi_readings,      \* table aqi_readings, in insertion (id) order
    password_resets,   \* table password_resets: set of rows
    now,               \* datetime.now()
    pc,                \* per connection: position inside the auth function it runs
    frame,             \* per connection: arguments and locals of that function
    ret,               \* the call that returned in the latest step, NoCall if none did
    lastPw,            \* history: username -> password last written to users.password
    session,           \* per browser session: st.session_state
    view               \* the latest page render: what was fetched and shown

vars == <<call, fetch, users, user_preferences, aqi_readings,
          password_resets, now, pc, frame, ret, lastPw, session, view>>

-----------------------------------------------------------------------------
(* Bounds of the model *)

\* AQI values range over -MinAqiNeg .. MaxAqi
MinAqiNeg == 5
MaxAqi == 505

AqiValues == (0 - MinAqiNeg)..MaxAqi

\* Python's None; also the empty dict (both are falsy)
None == << >>

Truthy(d) == DOMAIN d # {}

NoCall == [fn |-> "none"]

-----------------------------------------------------------------------------
(* utils.py: get_aqi_category *)

get_aqi_category_shifted(aqi_value) ==
    IF aqi_value < 50 THEN <<"Good", "#4CAF50">>
    ELSE IF aqi_value < 100 THEN <<"Moderate", "#FFEB3B">>
    ELSE IF aqi_value < 150 THEN <<"Unhealthy for Sensitive Groups", "#FF9800">>
    ELSE IF aqi_value < 200 THEN <<"Unhealthy", "#F44336">>
    ELSE IF aqi_value < 300 THEN <<"Very Unhealthy", "#9C27B0">>
    ELSE <<"Hazardous", "#800000">>

get_aqi_category_lower_bounded(aqi_value) ==
    IF 0 <= aqi_value /\ aqi_value <= 50 THEN <<"Good", "#4CAF50">>
    ELSE IF 0 <= aqi_value /\ aqi_value <= 100 THEN <<"Moderate", "#FFEB3B">>
    ELSE IF 0 <= aqi_value /\ aqi_value <= 150 THEN <<"Unhealthy for Sensitive Groups", "#FF9800">>
    ELSE IF 0 <= aqi_value /\ aqi_value <= 200 THEN <<"Unhealthy", "#F44336">>
    ELSE IF 0 <= aqi_value /\ aqi_value <= 300 THEN <<"Very Unhealthy", "#9C27B0">>
    ELSE <<"Hazardous", "#800000">>

get_aqi_category(aqi_value) ==
    IF aqi_value <= 50 THEN <<"Good", "#4CAF50">>
    ELSE IF aqi_value <= 100 THEN <<"Moderate", "#FFEB3B">>
    ELSE IF aqi_value <= 150 THEN <<"Unhealthy for Sensitive Groups", "#FF9800">>
    ELSE IF aqi_value <= 200 THEN <<"Unhealthy", "#F44336">>
    ELSE IF aqi_value <= 300 THEN <<"Very Unhealthy", "#9C27B0">>
    ELSE <<"Hazardous", "#800000">>

-----------------------------------------------------------------------------
(* recommendations.py: get_recommendations, basic mode *)

basic_good ==
    [general |-> "Air quality is good. Enjoy your outdoor activities.",
     outdoor |-> "It's a great day for outdoor exercise and activities.",
     protection |-> "No special protection needed for the general population.",
     health |-> "Good air quality contributes to overall health and well-being."]

basic_moderate ==
    [general |-> "Air quality is acceptable for most individuals.",
     outdoor |-> "Unusually sensitive people should consider reducing prolonged outdoor exertion.",
     protection |-> "No special protection needed for most people.",
     health |-> "Good time to be outdoors, but monitor your body's response if you have respiratory issues."]

basic_sensitive ==
    [general |-> "Members of sensitive groups may experience health effects.",
     outdoor |-> "People with heart or lung disease, older adults, and children should limit prolonged outdoor exertion.",
     protection |-> "Consider wearing masks outdoors if you belong to a sensitive group.",
     health |-> "Stay hydrated and take more breaks during outdoor activities."]

basic_unhealthy ==
    [general |-> "Everyone may begin to experience health effects.",
     outdoor |-> "Everyone should limit prolonged outdoor exertion.",
     protection |-> "Wear N95 masks outdoors. Keep windows closed at home and in vehicles.",
     health |-> "Consider using air purifiers indoors. Stay well-hydrated."]

basic_very_unhealthy ==
    [general |-> "Health alert: everyone may experience more serious health effects.",
     outdoor |-> "Avoid all outdoor physical activities. Stay indoors if possible.",
     protection |-> "Wear N95 masks whenever outdoors. Use air purifiers indoors.",
     health |-> "Check on elderly neighbors and those with respiratory or heart conditions."]

basic_hazardous_without_health ==
    [general |-> "Health warning: emergency conditions. Entire population is more likely to be affected.",
     outdoor |-> "Avoid all outdoor activities. Stay indoors with windows closed.",
     protection |-> "Wear N95 masks even for brief outdoor exposure. Seal windows and doors if possible."]

basic_hazardous ==
    [general |-> "Health warning: emergency conditions. Entire population is more likely to be affected.",
     outdoor |-> "Avoid all outdoor activities. Stay indoors with windows closed.",
     protection |-> "Wear N95 masks even for brief outdoor exposure. Seal windows and doors if possible.",
     health |-> "Use air purifiers, stay hydrated, and monitor for symptoms like coughing or shortness of breath."]

\* the "if not detailed" branch
get_recommendations_basic(aqi_value) ==
    IF aqi_value <= 50 THEN basic_good
    ELSE IF aqi_value <= 100 THEN basic_moderate
    ELSE IF aqi_value <= 150 THEN basic_sensitive
    ELSE IF aqi_value <= 200 THEN basic_unhealthy
    ELSE IF aqi_value <= 300 THEN basic_very_unhealthy
    ELSE basic_hazardous

-----------------------------------------------------------------------------
(* The universe the inputs are drawn from *)

Conns == {"c1", "c2"}            \* database connections (one per running script)
Sessions == {"tab1", "tab2"}     \* browser sessions

\* st.session_state.username = None
NoUser == "<None>"

DefaultLocation == "London"

InitSession ==
    [authenticated |-> FALSE,
     username |-> NoUser,
     location |-> DefaultLocation,
     locations |-> << >>,
     current_aqi |-> None]

\* the state after the tables have been created and before any request
InitState ==
    /\ call = NoCall
    /\ fetch = NoCall
    /\ users = << >>
    /\ user_preferences = << >>
    /\ aqi_readings = << >>
    /\ password_resets = {}
    /\ now = 0
    /\ pc = [c \in Conns |-> "idle"]
    /\ frame = [c \in Conns |-> None]
    /\ ret = NoCall
    /\ lastPw = << >>
    /\ session = [s \in Sessions |-> InitSession]
    /\ view = NoCall

dbVars == <<users, user_preferences, aqi_readings, password_resets, now, lastPw>>
procVars == <<pc, frame, ret>>

-----------------------------------------------------------------------------
(* The category mapper applied to any AQI value *)

CallGetAqiCategory ==
    \E v \in AqiValues :
        /\ call' = [fn |-> "get_aqi_category", aqi |-> v, result |-> get_aqi_category(v)]
        /\ UNCHANGED <<fetch, dbVars, procVars, session, view>>

SpecCategory == InitState /\ [][CallGetAqiCategory]_vars

SixPairs ==
    {<<"Good", "#4CAF50">>, <<"Moderate", "#FFEB3B">>,
     <<"Unhealthy for Sensitive Groups", "#FF9800">>, <<"Unhealthy", "#F44336">>,
     <<"Very Unhealthy", "#9C27B0">>, <<"Hazardous", "#800000">>}

\* severity rank of a category label
Rank(label) ==
    CASE label = "Good" -> 1
      [] label = "Moderate" -> 2
      [] label = "Unhealthy for Sensitive Groups" -> 3
      [] label = "Unhealthy" -> 4
      [] label = "Very Unhealthy" -> 5
      [] label = "Hazardous" -> 6

IsCategoryCall(c) == c.fn = "get_aqi_category"

\* C1: get_aqi_category(v) is one of six (label, color) pairs, the one of the
\* first upper bound among 50, 100, 150, 200, 300 that v does not exceed (the
\* sixth when it exceeds them all); of two values the larger never has the lower
\* severity; 49 and 50 are Good, 51 is Moderate and 500 is Hazardous.
C1_CategoryContract ==
    IsCategoryCall(call) =>
        /\ Cardinality(SixPairs) = 6
        /\ call.result \in SixPairs
        /\ Rank(call.result[1]) =
              1 + Cardinality({b \in {50, 100, 150, 200, 300} : call.aqi > b})
        /\ \A w \in AqiValues :
              w <= call.aqi => Rank(get_aqi_category(w)[1]) <= Rank(call.result[1])
        /\ call.aqi \in {49, 50} => call.result = <<"Good", "#4CAF50">>
        /\ call.aqi = 51 => call.result = <<"Moderate", "#FFEB3B">>
        /\ call.aqi = 500 => call.result = <<"Hazardous", "#800000">>

C1_Witness ==
    IsCategoryCall(call) /\ call.aqi = 500 /\ call.result = <<"Hazardous", "#800000">>

-----------------------------------------------------------------------------
(* The recommendation table applied to any AQI value *)

CallGetRecommendationsBasic ==
    \E v \in AqiValues :
        /\ call' = [fn |-> "get_recommendations", aqi |-> v, detailed |-> FALSE,
                    result |-> get_recommendations_basic(v)]
        /\ UNCHANGED <<fetch, dbVars, procVars, session, view>>

SpecRecommend == InitState /\ [][CallGetRecommendationsBasic]_vars

\* C10: get_recommendations(v, detailed=False) has exactly the four keys
\* general, outdoor, protection and health, for every AQI value v.
C10_BasicKeys ==
    (call.fn = "get_recommendations" /\ ~call.detailed) =>
        DOMAIN call.result = {"general", "outdoor", "protection", "health"}

C10_Witness ==
    /\ call.fn = "get_recommendations" /\ ~call.detailed /\ call.aqi = 301
    /\ call.result.health # basic_good.health

-----------------------------------------------------------------------------
(* data.py: the AQI fetcher.  Concentrations are kept in tenths (354 is     *)
(* 35.4) so that the breakpoints and the arithmetic stay exact.            *)

Locations == {"London", "Paris", "Lundon"}

\* Python's int() of the rational num/den (den > 0): truncation towards zero
PyInt(num, den) == IF num >= 0 THEN num \div den ELSE 0 - ((0 - num) \div den)

Min(a, b) == IF a <= b THEN a ELSE b

calculate_aqi(pollutants) ==
    IF "pm25" \in DOMAIN pollutants THEN
        LET pm25 == pollutants["pm25"] IN
        IF pm25 <= 120 THEN PyInt(50 * pm25, 120)
        ELSE IF pm25 <= 354 THEN PyInt(50 * 234 + 50 * (pm25 - 120), 234)
        ELSE IF pm25 <= 554 THEN PyInt(100 * 200 + 50 * (pm25 - 354), 200)
        ELSE IF pm25 <= 1504 THEN PyInt(150 * 950 + 50 * (pm25 - 554), 950)
        ELSE IF pm25 <= 2504 THEN PyInt(200 * 1000 + 100 * (pm25 - 1504), 1000)
        ELSE PyInt(300 * 2500 + 200 * (pm25 - 2504), 2500)
    ELSE IF "pm10" \in DOMAIN pollutants THEN
        LET pm10 == pollutants["pm10"] IN
        IF pm10 <= 540 THEN PyInt(50 * pm10, 540)
        ELSE IF pm10 <= 1540 THEN PyInt(50 * 1000 + 50 * (pm10 - 540), 1000)
        ELSE IF pm10 <= 2540 THEN PyInt(100 * 1000 + 50 * (pm10 - 1540), 1000)
        ELSE IF pm10 <= 3540 THEN PyInt(150 * 1000 + 50 * (pm10 - 2540), 1000)
        ELSE IF pm10 <= 4240 THEN PyInt(200 * 700 + 100 * (pm10 - 3540), 700)
        ELSE PyInt(300 * 1760 + 200 * (pm10 - 4240), 1760)
    ELSE IF "no2" \in DOMAIN pollutants THEN
        Min(300, PyInt(2 * pollutants["no2"], 10))
    ELSE IF "o3" \in DOMAIN pollutants THEN
        Min(300, PyInt(15 * pollutants["o3"], 100))
    ELSE 50

\* the loop over measurements_data['results']: a later measurement of a
\* parameter overwrites an earlier one
RECURSIVE collect_pollutants(_)
collect_pollutants(results) ==
    IF results = << >> THEN << >>
    ELSE LET last == results[Len(results)]
             rest == collect_pollutants(SubSeq(results, 1, Len(results) - 1))
         IN  (last[1] :> last[2]) @@ rest

pollutant_map ==
    [pm25 |-> "PM2.5", pm10 |-> "PM10", o3 |-> "O3", no2 |-> "NO2",
     so2 |-> "SO2", co |-> "CO"]

remap_iaqi_keeping_unmapped(iaqi) ==
    LET name(k) == IF k \in DOMAIN pollutant_map THEN pollutant_map[k] ELSE k
        names == {name(k) : k \in DOMAIN iaqi}
    IN  [n \in names |-> iaqi[CHOOSE k \in DOMAIN iaqi : name(k) = n]]

\* the loop over pollutant_map.items(): display name -> iaqi[key]['v']
remap_iaqi(iaqi) ==
    LET keys == {k \in DOMAIN pollutant_map : k \in DOMAIN iaqi}
        names == {pollutant_map[k] : k \in keys}
    IN  [n \in names |-> iaqi[CHOOSE k \in keys : pollutant_map[k] = n]]

\* what the WAQI feed endpoint does for the request
AltOutcomes ==
    {[kind |-> "raise"], [kind |-> "status_error"]}
    \cup {[kind |-> "ok", aqi |-> a, iaqi |-> i] :
            a \in {42, 160},
            i \in {<< >>, [pm25 |-> 10], [pm25 |-> 10, h |-> 50, no2 |-> 7]}}

\* how a block of code ends: with an exception, or with a returned value
Raised == [raised |-> TRUE]
Returned(v) == [raised |-> FALSE, value |-> v]

\* the try block of get_aqi_from_alternative_source
alternative_try_block(location, alt, time) ==
    IF alt.kind = "raise" THEN Raised
    ELSE IF alt.kind = "ok" THEN
        Returned([aqi |-> alt.aqi,
                  pollutants |-> remap_iaqi(alt.iaqi),
                  location |-> location,
                  timestamp |-> time])
    ELSE Returned(None)

\* the try block with its "except Exception: return None"
get_aqi_from_alternative_source(location, alt, time) ==
    LET block == alternative_try_block(location, alt, time)
    IN  IF block.raised THEN None ELSE block.value

\* what the OpenAQ endpoints do for the request: an exception anywhere in the
\* try block (network error, bad JSON, a missing key), no location found, no
\* measurements for the location, or a list of (parameter, value) measurements
PrimaryOutcomes ==
    {[kind |-> "raise"], [kind |-> "no_results"], [kind |-> "no_measurements"]}
    \cup {[kind |-> "ok", results |-> r] :
            r \in {<< <<"pm25", 100>> >>,
                   << <<"pm10", 2000>>, <<"um100", 3>> >>,
                   << <<"no2", 2000>>, <<"no2", 400>> >>,
                   << <<"co", 5>> >>}}

\* the try block of get_current_aqi
primary_try_block(location, primary, time) ==
    IF primary.kind = "raise" THEN Raised
    ELSE IF primary.kind = "no_results" THEN Returned(None)
    ELSE IF primary.kind = "no_measurements" THEN Returned(None)
    ELSE LET pollutants == collect_pollutants(primary.results) IN
         Returned([aqi |-> calculate_aqi(pollutants),
                   pollutants |-> pollutants,
                   location |-> location,
                   timestamp |-> time])

get_current_aqi_without_except(location, primary, alt, time) ==
    primary_try_block(location, primary, time)

\* the try block with its "except Exception": the handler returns what the
\* alternative source returns, which itself ends no call with an exception
get_current_aqi_outcome(location, primary, alt, time) ==
    LET block == primary_try_block(location, primary, time)
    IN  IF block.raised
        THEN Returned(get_aqi_from_alternative_source(location, alt, time))
        ELSE block

get_current_aqi(location, primary, alt, time) ==
    get_current_aqi_outcome(location, primary, alt, time).value

IsReading(aqi_data) == Truthy(aqi_data) /\ "error" \notin DOMAIN aqi_data

CallGetCurrentAqi ==
    \E location \in Locations, primary \in PrimaryOutcomes, alt \in AltOutcomes :
        /\ LET outcome == get_current_aqi_outcome(location, primary, alt, now)
           IN  fetch' = [fn |-> "get_current_aqi", location |-> location,
                         primary |-> primary, alt |-> alt,
                         raised |-> outcome.raised,
                         result |-> IF outcome.raised THEN None ELSE outcome.value]
        /\ UNCHANGED <<call, dbVars, procVars, session, view>>

SpecFetch == InitState /\ [][CallGetCurrentAqi]_vars

\* the provider reports that it does not know the city
UnknownCity(f) ==
    \/ f.primary.kind = "no_results"
    \/ f.primary.kind = "raise" /\ f.alt.kind = "status_error"

\* C4 (as claimed): when the provider reports an unknown city, get_current_aqi
\* returns an error record that carries at most 5 suggested location names.
C4_UnknownCityGivesSuggestions ==
    (fetch.fn = "get_current_aqi" /\ UnknownCity(fetch)) =>
        /\ "error" \in DOMAIN fetch.result
        /\ "suggestions" \in DOMAIN fetch.result
        /\ Len(fetch.result.suggestions) <= 5

-----------------------------------------------------------------------------
(* auth.py: password hashing *)

Usernames == {"alice", "bob"}
Passwords == {"pw123", "hunter2"}

\* hashlib.sha256(...).hexdigest() is 64 hexadecimal characters
SaltHexLen == 64
\* stored_password[:64] and stored_password[64:]
SaltSliceLen == 64

\* the values secrets.token_bytes(32) may lead to: two salts stand for all
Salts == {[i \in 1..SaltHexLen |-> "a"], [i \in 1..SaltHexLen |-> "b"]}

\* hashlib.pbkdf2_hmac('sha256', password, salt, 100000).hex(): a function of
\* the password and the salt, taken to be free of collisions
pbkdf2_hmac(password, salt) == <<password>> \o salt

hash_password(password, salt) == salt \o pbkdf2_hmac(password, salt)

verify_password_salt_only(stored_password, provided_password) ==
    LET salt == SubSeq(stored_password, 1, SaltSliceLen)
        stored_hash == SubSeq(stored_password, SaltSliceLen + 1, Len(stored_password))
        pwdhash == pbkdf2_hmac(provided_password, salt)
    IN  Tail(pwdhash) = Tail(stored_hash)

verify_password(stored_password, provided_password) ==
    LET salt == SubSeq(stored_password, 1, SaltSliceLen)
        stored_hash == SubSeq(stored_password, SaltSliceLen + 1, Len(stored_password))
        pwdhash == pbkdf2_hmac(provided_password, salt)
    IN  pwdhash = stored_hash

\* users.last_login IS NULL
NoTime == 0 - 1

\* the row register_user inserts into users (created_at is not modelled:
\* nothing reads it but the join-date display)
new_user_row(hashed_password) == [password |-> hashed_password, last_login |-> NoTime]

\* the row register_user inserts into user_preferences, with the column defaults
new_preferences_row ==
    [saved_locations |-> << >>, unit |-> "metric", notification_preferences |-> << >>]

users_primary_key_absent(table, username) == FALSE

\* PRIMARY KEY of users: an INSERT of a present username raises
users_primary_key(table, username) == username \in DOMAIN table

verify_user(table, username, password) ==
    IF username \notin DOMAIN table THEN FALSE
    ELSE verify_password(table[username].password, password)

-----------------------------------------------------------------------------
(* auth.py: register_user, statement by statement on a connection.  A       *)
(* statement may fail (fault) for a reason of the database's own.          *)

Idle(c) == pc[c] = "idle"

appVars == <<call, fetch, session, view>>

\* SELECT username FROM users WHERE username = %s, and the early return
RegisterSelect(c) ==
    /\ Idle(c)
    /\ \E username \in Usernames, password \in Passwords, salt \in Salts :
        IF username \in DOMAIN users
        THEN /\ ret' = [fn |-> "register_user", conn |-> c, username |-> username,
                        value |-> FALSE, error |-> FALSE, committed |-> {}]
             /\ UNCHANGED <<pc, frame>>
        ELSE /\ pc' = [pc EXCEPT ![c] = "reg_insert_user"]
             /\ frame' = [frame EXCEPT ![c] =
                    [username |-> username, password |-> password,
                     hashed_password |-> hash_password(password, salt),
                     committed |-> {}]]
             /\ ret' = NoCall
    /\ UNCHANGED <<dbVars, appVars>>

\* INSERT INTO users ...; conn.commit()
RegisterInsertUser(c) ==
    /\ pc[c] = "reg_insert_user"
    /\ LET f == frame[c] IN
       \E fault \in BOOLEAN :
        IF fault \/ users_primary_key(users, f.username)
        THEN \* except: conn.rollback(); return False
             /\ ret' = [fn |-> "register_user", conn |-> c, username |-> f.username,
                        value |-> FALSE, error |-> TRUE, committed |-> f.committed]
             /\ pc' = [pc EXCEPT ![c] = "idle"]
             /\ frame' = [frame EXCEPT ![c] = None]
             /\ UNCHANGED <<users, lastPw>>
        ELSE /\ users' = (f.username :> new_user_row(f.hashed_password)) @@ users
             /\ lastPw' = (f.username :> f.password) @@ lastPw
             /\ pc' = [pc EXCEPT ![c] = "reg_insert_prefs"]
             /\ frame' = [frame EXCEPT ![c] =
                    [username |-> f.username, committed |-> {"users"}]]
             /\ ret' = NoCall
    /\ UNCHANGED <<user_preferences, aqi_readings, password_resets, now, appVars>>

\* INSERT INTO user_preferences ...; conn.commit(); return True
RegisterInsertPrefs(c) ==
    /\ pc[c] = "reg_insert_prefs"
    /\ LET f == frame[c] IN
       \E fault \in BOOLEAN :
        IF fault \/ f.username \in DOMAIN user_preferences
        THEN \* except: conn.rollback(); return False
             /\ ret' = [fn |-> "register_user", conn |-> c, username |-> f.username,
                        value |-> FALSE, error |-> TRUE, committed |-> f.committed]
             /\ UNCHANGED user_preferences
        ELSE /\ user_preferences' = (f.username :> new_preferences_row) @@ user_preferences
             /\ ret' = [fn |-> "register_user", conn |-> c, username |-> f.username,
                        value |-> TRUE, error |-> FALSE,
                        committed |-> f.committed \cup {"user_preferences"}]
    /\ pc' = [pc EXCEPT ![c] = "idle"]
    /\ frame' = [frame EXCEPT ![c] = None]
    /\ UNCHANGED <<users, lastPw, aqi_readings, password_resets, now, appVars>>

\* verify_user: one SELECT
VerifyUser(c) ==
    /\ Idle(c)
    /\ \E username \in Usernames, password \in Passwords :
        ret' = [fn |-> "verify_user", conn |-> c, username |-> username,
                password |-> password, value |-> verify_user(users, username, password)]
    /\ UNCHANGED <<pc, frame, dbVars, appVars>>

\* update_password: UPDATE users SET password ...; conn.commit()
UpdatePasswordUpdate(c, passwords, salts) ==
    /\ Idle(c)
    /\ \E username \in Usernames, new_password \in passwords, salt \in salts :
        /\ IF username \in DOMAIN users
           THEN /\ users' = [users EXCEPT ![username].password =
                                 hash_password(new_password, salt)]
                /\ lastPw' = [lastPw EXCEPT ![username] = new_password]
           ELSE UNCHANGED <<users, lastPw>>
        /\ pc' = [pc EXCEPT ![c] = "upd_delete"]
        /\ frame' = [frame EXCEPT ![c] =
                [username |-> username, updated |-> username \in DOMAIN users]]
    /\ ret' = NoCall
    /\ UNCHANGED <<user_preferences, aqi_readings, password_resets, now, appVars>>

\* update_password: DELETE FROM password_resets WHERE username = %s; conn.commit()
UpdatePasswordDelete(c) ==
    /\ pc[c] = "upd_delete"
    /\ password_resets' = {r \in password_resets : r.username # frame[c].username}
    /\ ret' = [fn |-> "update_password", conn |-> c, username |-> frame[c].username,
               updated |-> frame[c].updated]
    /\ pc' = [pc EXCEPT ![c] = "idle"]
    /\ frame' = [frame EXCEPT ![c] = None]
    /\ UNCHANGED <<users, lastPw, user_preferences, aqi_readings, now, appVars>>

RegisterNext ==
    \E c \in Conns :
        \/ RegisterSelect(c)
        \/ RegisterInsertUser(c)
        \/ RegisterInsertPrefs(c)
        \/ VerifyUser(c)
        \/ UpdatePasswordUpdate(c, Passwords, Salts)
        \/ UpdatePasswordDelete(c)

SpecRegister == InitState /\ [][RegisterNext]_vars


RegPcs == {"reg_insert_user", "reg_insert_prefs"}

\* the step is one of register_user, run by some connection
IsRegisterStep ==
    \E c \in Conns :
        \/ pc[c] \in RegPcs /\ pc'[c] # pc[c]
        \/ pc[c] = "idle" /\ pc'[c] = "reg_insert_user"
        \/ pc[c] = "idle" /\ ret'.fn = "register_user" /\ ret'.conn = c

\* the step is the return of a register_user call for a username that is
\* stored and that this call did not insert
DuplicateRegistrationReturns ==
    /\ ret'.fn = "register_user"
    /\ ret'.username \in DOMAIN users
    /\ "users" \notin ret'.committed

\* C5: no step of register_user changes or removes a stored row (the password
\* hash of an existing account included), whatever the interleaving of the
\* calls on two connections, and a call for a username that is already stored
\* returns False.
C5_DuplicateRegistration ==
    [][IsRegisterStep =>
        /\ \A u \in DOMAIN users : u \in DOMAIN users' /\ users'[u] = users[u]
        /\ \A u \in DOMAIN user_preferences :
              u \in DOMAIN user_preferences' /\ user_preferences'[u] = user_preferences[u]
        /\ aqi_readings' = aqi_readings
        /\ password_resets' = password_resets
        /\ DuplicateRegistrationReturns =>
              (ret'.value = FALSE /\ users' = users /\ user_preferences' = user_preferences)
      ]_vars

\* two registrations of one username raced: the loser found no row with its
\* SELECT and lost on the primary key
C5_Witness ==
    /\ ret.fn = "register_user" /\ ret.value = FALSE /\ ret.error
    /\ ret.committed = {}
    /\ ret.username \in DOMAIN users
    /\ \E c \in Conns : pc[c] = "reg_insert_prefs" /\ frame[c].username = ret.username

C7_PasswordRoundTrip ==
    /\ \A u \in DOMAIN users, p \in Passwords :
          verify_password(users[u].password, p) = (p = lastPw[u])
    /\ ret.fn = "verify_user" =>
          ret.value = (ret.username \in DOMAIN users /\ lastPw[ret.username] = ret.password)

\* a login with the new password after a password change, the old one now
\* being a wrong password
C7_Witness ==
    /\ ret.fn = "verify_user" /\ ret.value /\ ret.password = "hunter2"
    /\ ~verify_user(users, ret.username, "pw123")
    /\ \E u \in DOMAIN users : u # ret.username /\ lastPw[u] = "pw123"

-----------------------------------------------------------------------------
(* auth.py: reset tokens, with update_password statement by statement *)

Tokens == {"tokA", "tokB"}

\* the clock runs from 0 to MaxTime
MaxTime == 2
\* at most MaxResets rows are stored in password_resets
MaxResets == 2

\* register_user run to its end on one connection, no statement failing
RegisterRun(c, passwords, salts) ==
    /\ Idle(c)
    /\ \E username \in Usernames, password \in passwords, salt \in salts :
        IF username \in DOMAIN users
        THEN /\ ret' = [fn |-> "register_user", conn |-> c, username |-> username,
                        value |-> FALSE, error |-> FALSE, committed |-> {}]
             /\ UNCHANGED <<users, user_preferences, lastPw>>
        ELSE /\ users' = (username :> new_user_row(hash_password(password, salt))) @@ users
             /\ lastPw' = (username :> password) @@ lastPw
             /\ user_preferences' = (username :> new_preferences_row) @@ user_preferences
             /\ ret' = [fn |-> "register_user", conn |-> c, username |-> username,
                        value |-> TRUE, error |-> FALSE,
                        committed |-> {"users", "user_preferences"}]
    /\ UNCHANGED <<pc, frame, aqi_readings, password_resets, now, appVars>>

\* save_reset_token: INSERT INTO password_resets; the foreign key to users and
\* the primary key (username, token) make the INSERT raise
SaveResetToken(c) ==
    /\ Idle(c)
    /\ Cardinality(password_resets) < MaxResets
    /\ \E username \in Usernames, token \in Tokens, expiry \in 0..MaxTime :
        IF \/ username \notin DOMAIN users
           \/ \E r \in password_resets : r.username = username /\ r.token = token
        THEN /\ ret' = [fn |-> "save_reset_token", conn |-> c, raised |-> TRUE]
             /\ UNCHANGED password_resets
        ELSE /\ password_resets' = password_resets \cup
                    {[username |-> username, token |-> token, expiry |-> expiry]}
             /\ ret' = [fn |-> "save_reset_token", conn |-> c, raised |-> FALSE]
    /\ UNCHANGED <<pc, frame, users, user_preferences, aqi_readings, now, lastPw, appVars>>

verify_reset_token_ignoring_expiry(table, token, time) ==
    LET rows == {r \in table : r.token = token} IN
    IF rows = {} THEN {NoUser}
    ELSE {r.username : r \in rows}

\* the values verify_reset_token may return: fetchone() takes any one of the
\* rows with the token (two users may hold the same token)
verify_reset_token(table, token, time) ==
    LET rows == {r \in table : r.token = token} IN
    IF rows = {} THEN {NoUser}
    ELSE {IF time > r.expiry THEN NoUser ELSE r.username : r \in rows}

VerifyResetToken(c) ==
    /\ Idle(c)
    /\ \E token \in Tokens :
       \E value \in verify_reset_token(password_resets, token, now) :
        ret' = [fn |-> "verify_reset_token", conn |-> c, token |-> token, value |-> value]
    /\ UNCHANGED <<pc, frame, dbVars, appVars>>

Tick ==
    /\ now < MaxTime
    /\ now' = now + 1
    /\ ret' = NoCall
    /\ UNCHANGED <<pc, frame, users, user_preferences, aqi_readings, password_resets,
                   lastPw, appVars>>

ResetNext ==
    \/ Tick
    \/ \E c \in Conns :
        \/ RegisterRun(c, {"pw123"}, {[i \in 1..SaltHexLen |-> "a"]})
        \/ SaveResetToken(c)
        \/ VerifyResetToken(c)
        \/ UpdatePasswordUpdate(c, {"hunter2"}, {[i \in 1..SaltHexLen |-> "b"]})
        \/ UpdatePasswordDelete(c)

SpecReset == InitState /\ [][ResetNext]_vars

\* C8: verify_reset_token(token) returns a username only if a stored row holds
\* the token for that very username and the clock is not past the row's expiry;
\* it returns None for a token no row holds and for a token all of whose rows
\* have expired.
C8_ResetTokenVerification ==
    ret.fn = "verify_reset_token" =>
        LET rows == {r \in password_resets : r.token = ret.token} IN
        /\ ret.value # NoUser =>
              \E r \in rows : r.username = ret.value /\ ~(now > r.expiry)
        /\ rows = {} => ret.value = NoUser
        /\ (\A r \in rows : now > r.expiry) => ret.value = NoUser

\* a stored token was verified after its expiry had passed
C8_Witness ==
    /\ ret.fn = "verify_reset_token" /\ ret.value = NoUser
    /\ \E r \in password_resets : r.token = ret.token /\ now > r.expiry
    /\ \E r \in password_resets : r.token # ret.token /\ now <= r.expiry

\* the reset tokens of a user that verify_reset_token still accepts
LiveTokens(username) ==
    {r \in password_resets : r.username = username /\ ~(now > r.expiry)}

\* C9 (as claimed): in no reachable state has update_password changed the
\* stored password of a user while a reset token of that user still verifies,
\* and when update_password has returned no token of the user is stored.
C9_NoTokenSurvivesPasswordChange ==
    /\ \A c \in Conns :
          (pc[c] = "upd_delete" /\ frame[c].updated) => LiveTokens(frame[c].username) = {}
    /\ (ret.fn = "update_password" /\ ret.updated) =>
          {r \in password_resets : r.username = ret.username} = {}

-----------------------------------------------------------------------------
(* database.py, as the pages use it *)

\* dict.get(key, default)
DictGet(d, key, default) == IF key \in DOMAIN d THEN d[key] ELSE default

\* "json.loads(value) if value else empty" on a JSONB column: the driver hands
\* the value over as text or as the decoded object.  The text of any value is
\* a non-empty string, which json.loads turns into the value; of the decoded
\* objects the empty ones (and NULL) are falsy and skip json.loads, the others
\* make json.loads raise TypeError
loads_if_truthy(value, decoded) ==
    IF decoded /\ Truthy(value) THEN Raised ELSE Returned(value)

\* get_user_data: "if not conn: return None"; users LEFT JOIN user_preferences
\* (NULL columns for a user without a preferences row); None for an unknown
\* user; the two JSONB columns go through json.loads outside any try
get_user_data(conn_ok, username, decoded) ==
    IF ~conn_ok THEN Returned(None)
    ELSE IF username \notin DOMAIN users THEN Returned(None)
    ELSE LET joined == username \in DOMAIN user_preferences
             saved_locations ==
                 loads_if_truthy(IF joined THEN user_preferences[username].saved_locations
                                 ELSE << >>, decoded)
             notification_preferences ==
                 loads_if_truthy(IF joined
                                 THEN user_preferences[username].notification_preferences
                                 ELSE << >>, decoded)
         IN  IF saved_locations.raised \/ notification_preferences.raised THEN Raised
             ELSE Returned([username |-> username,
                            saved_locations |-> saved_locations.value,
                            unit |-> IF joined THEN user_preferences[username].unit
                                     ELSE "NULL",
                            notification_preferences |-> notification_preferences.value])

save_aqi_reading_overwriting(table, conn_ok, username, location, aqi_value, data, time) ==
    IF ~conn_ok THEN table
    ELSE <<[username |-> username, location |-> location, aqi_value |-> aqi_value,
            timestamp |-> time, pollutants |-> DictGet(data, "pollutants", << >>)]>>

\* save_aqi_reading: the table after the call.  "if not conn: return False";
\* otherwise one INSERT and a commit
save_aqi_reading(table, conn_ok, username, location, aqi_value, data, time) ==
    IF ~conn_ok THEN table
    ELSE Append(table,
                [username |-> username, location |-> location, aqi_value |-> aqi_value,
                 timestamp |-> time, pollutants |-> DictGet(data, "pollutants", << >>)])

-----------------------------------------------------------------------------
(* app.py and pages/dashboard.py: one action per script run *)

\* at most MaxReadings rows are stored in aqi_readings
MaxReadings == 2

AppLocations == {"London", "Paris"}

\* the provider behaviours the page runs are checked with: no reading from
\* either source, or a reading with AQI 42 or 160 from the alternative source
AppPrimaryOutcomes == {[kind |-> "raise"], [kind |-> "no_results"]}
AppAltOutcomes ==
    {[kind |-> "status_error"],
     [kind |-> "ok", aqi |-> 42, iaqi |-> [pm25 |-> 10]],
     [kind |-> "ok", aqi |-> 160, iaqi |-> [pm25 |-> 70, h |-> 50]]}

authVars == <<pc, frame, ret, password_resets, now>>

\* what a click on a sidebar button ends with: a message, or an exception
\* that no handler of the script catches; input is the username and the
\* password typed into the form
SidebarMessage(s, button, conn_ok, input, message) ==
    [fn |-> "sidebar", session |-> s, button |-> button, conn_ok |-> conn_ok,
     input |-> input, raised |-> FALSE, message |-> message]
SidebarException(s, button, conn_ok, input) ==
    [fn |-> "sidebar", session |-> s, button |-> button, conn_ok |-> conn_ok,
     input |-> input, raised |-> TRUE, message |-> "AttributeError"]

\* a click that ends with an exception of the named type raised after the
\* handler has begun to change the session
SidebarRaised(s, button, conn_ok, input, error) ==
    [fn |-> "sidebar", session |-> s, button |-> button, conn_ok |-> conn_ok,
     input |-> input, raised |-> TRUE, message |-> error]

\* conn.cursor(), the first statement of verify_user and of register_user:
\* None has no attribute cursor
cursor(conn_ok) == IF conn_ok THEN Returned("cursor") ELSE Raised

\* app.py sidebar: the Register button.  conn is what get_connection returned
\* for this run of the script, a connection or None; register_user starts
\* with conn.cursor()
AppRegisterOf(s, conns, usernames, passwords) ==
    /\ ~session[s].authenticated
    /\ \E conn_ok \in conns, new_username \in usernames, new_password \in passwords,
          confirm_password \in passwords :
        LET input == <<new_username, new_password>> IN
        IF new_password # confirm_password
        THEN /\ view' = SidebarMessage(s, "Register", conn_ok, input,
                                     "Passwords do not match")
             /\ UNCHANGED <<users, user_preferences, lastPw>>
        ELSE IF cursor(conn_ok).raised
        THEN /\ view' = SidebarException(s, "Register", conn_ok, input)
             /\ UNCHANGED <<users, user_preferences, lastPw>>
        ELSE IF new_username \in DOMAIN users
        THEN /\ view' = SidebarMessage(s, "Register", conn_ok, input,
                             "Username already exists or registration failed")
             /\ UNCHANGED <<users, user_preferences, lastPw>>
        ELSE /\ users' = (new_username :>
                    new_user_row(hash_password(new_password, [i \in 1..SaltHexLen |-> "a"])))
                    @@ users
             /\ lastPw' = (new_username :> new_password) @@ lastPw
             /\ user_preferences' = (new_username :> new_preferences_row) @@ user_preferences
             /\ view' = SidebarMessage(s, "Register", conn_ok, input,
                             "Registration successful! Please login.")
    /\ UNCHANGED <<call, fetch, session, aqi_readings, authVars>>

AppRegister(s) == AppRegisterOf(s, BOOLEAN, Usernames, Passwords)

\* app.py sidebar: the Login button, with a username and a password typed in
AppLoginOf(s, conns, usernames, passwords) ==
    /\ ~session[s].authenticated
    /\ \E conn_ok \in conns, username \in usernames, password \in passwords :
        LET input == <<username, password>> IN
        IF cursor(conn_ok).raised
        THEN /\ view' = SidebarException(s, "Login", conn_ok, input)
             /\ UNCHANGED session
        ELSE IF verify_user(users, username, password)
        THEN \E decoded \in BOOLEAN :
             LET outcome == get_user_data(conn_ok, username, decoded) IN
             IF outcome.raised
             THEN \* authenticated and username are set before get_user_data runs
                  /\ session' = [session EXCEPT
                         ![s].authenticated = TRUE,
                         ![s].username = username]
                  /\ view' = SidebarRaised(s, "Login", conn_ok, input, "TypeError")
             ELSE LET user_data == outcome.value IN
                  /\ session' = [session EXCEPT
                         ![s].authenticated = TRUE,
                         ![s].username = username,
                         ![s].locations =
                             IF Truthy(user_data) /\ "saved_locations" \in DOMAIN user_data
                             THEN user_data.saved_locations ELSE @]
                  /\ view' = SidebarMessage(s, "Login", conn_ok, input,
                                           "Login successful!")
        ELSE /\ view' = SidebarMessage(s, "Login", conn_ok, input,
                                     "Invalid username or password")
             /\ UNCHANGED session
    /\ UNCHANGED <<call, fetch, dbVars, authVars>>

AppLogin(s) == AppLoginOf(s, BOOLEAN, Usernames, Passwords)

\* app.py sidebar: the Logout button
AppLogout(s) ==
    /\ session[s].authenticated
    /\ session' = [session EXCEPT ![s].authenticated = FALSE, ![s].username = NoUser]
    /\ view' = NoCall
    /\ UNCHANGED <<call, fetch, dbVars, authVars>>

\* app.py and dashboard.py sidebar: the Search button with a city name
AppSearch(s) ==
    /\ session[s].authenticated
    /\ \E location_input \in AppLocations :
        session' = [session EXCEPT ![s].location = location_input]
    /\ view' = NoCall
    /\ UNCHANGED <<call, fetch, dbVars, authVars>>

\* the branch the Current AQI tab takes on the fetcher's result
current_aqi_tab_branch(aqi_data) ==
    IF Truthy(aqi_data) /\ "error" \notin DOMAIN aqi_data THEN "reading"
    ELSE IF Truthy(aqi_data) /\ "error" \in DOMAIN aqi_data
                             /\ "suggestions" \in DOMAIN aqi_data THEN "suggestions"
    ELSE IF Truthy(aqi_data) /\ "aqi" \in DOMAIN aqi_data THEN "pollutants"
    ELSE "failed"

\* app.py: a run of the script for an authenticated session, no button pressed:
\* the Current AQI tab
AppCurrentAqiTab(s) ==
    /\ session[s].authenticated
    /\ Len(aqi_readings) < MaxReadings
    /\ \E primary \in AppPrimaryOutcomes, alt \in AppAltOutcomes :
        LET aqi_data == get_current_aqi(session[s].location, primary, alt, now)
            branch == current_aqi_tab_branch(aqi_data)
            aqi_value == DictGet(aqi_data, "aqi", 0)
        IN  /\ session' = IF branch = "reading"
                          THEN [session EXCEPT ![s].current_aqi = aqi_data]
                          ELSE session
            /\ aqi_readings' =
                  IF branch = "pollutants"
                  THEN save_aqi_reading(aqi_readings, TRUE, session[s].username,
                                        session[s].location, aqi_value, aqi_data, now)
                  ELSE aqi_readings
            /\ view' = [fn |-> "render", page |-> "app", session |-> s,
                        aqi_data |-> aqi_data, branch |-> branch,
                        shown |-> IF branch = "reading"
                                  THEN get_aqi_category(aqi_value) ELSE None,
                        suggestions |->
                            IF branch = "suggestions"
                            THEN SubSeq(aqi_data.suggestions, 1,
                                        Min(6, Len(aqi_data.suggestions)))
                            ELSE << >>]
    /\ UNCHANGED <<call, fetch, users, user_preferences, lastPw, authVars>>

dashboard_shows_reading_always(aqi_data) == TRUE

\* dashboard.py: "if aqi_data:"
dashboard_shows_reading(aqi_data) == Truthy(aqi_data)

authentication_gate_open(state) == TRUE

\* dashboard.py: "if not st.session_state.authenticated: ... st.stop()"
authentication_gate(state) == state.authenticated

\* pages/dashboard.py: a run of the script, no button pressed.  The page gets
\* its own connection, which get_connection may fail to open (conn is None)
DashboardRender(s) ==
    /\ authentication_gate(session[s])
    /\ Len(aqi_readings) < MaxReadings
    /\ \E primary \in AppPrimaryOutcomes, alt \in AppAltOutcomes, conn_ok \in BOOLEAN :
        LET aqi_data == get_current_aqi(session[s].location, primary, alt, now)
            shows == dashboard_shows_reading(aqi_data)
            aqi_value == DictGet(aqi_data, "aqi", 0)
        IN  /\ session' = IF shows
                          THEN [session EXCEPT ![s].current_aqi = aqi_data]
                          ELSE session
            /\ aqi_readings' =
                  IF shows
                  THEN save_aqi_reading(aqi_readings, conn_ok, session[s].username,
                                        session[s].location, aqi_value, aqi_data, now)
                  ELSE aqi_readings
            /\ view' = [fn |-> "render", page |-> "dashboard", session |-> s,
                        aqi_data |-> aqi_data,
                        branch |-> IF shows THEN "reading" ELSE "failed",
                        shown |-> IF shows THEN get_aqi_category(aqi_value) ELSE None,
                        suggestions |-> << >>]
    /\ UNCHANGED <<call, fetch, users, user_preferences, lastPw, authVars>>

\* app.py, Health Recommendations tab, and the display part of
\* pages/recommendations.py: "if st.session_state.current_aqi:" the category
\* and the advice of the cached reading's AQI are shown, otherwise nothing
health_recommendations_tab(state) ==
    IF Truthy(state.current_aqi)
    THEN LET aqi_value == DictGet(state.current_aqi, "aqi", 0) IN
         [reading |-> state.current_aqi,
          aqi_value |-> aqi_value,
          category |-> get_aqi_category(aqi_value)]
    ELSE None

\* pages/recommendations.py: "if not st.session_state.current_aqi or
\* st.session_state.current_aqi.get('location') != st.session_state.location"
refetch(current_aqi, location) ==
    ~Truthy(current_aqi) \/ DictGet(current_aqi, "location", None) # location

\* pages/recommendations.py: a run of the script, no button pressed.  The
\* sidebar reads the user's data first; the page fetches only when it has no
\* cached reading of the selected location, and keeps the cached one when the
\* fetch gives nothing
RecommendationsRender(s) ==
    /\ authentication_gate(session[s])
    /\ \E primary \in AppPrimaryOutcomes, alt \in AppAltOutcomes, decoded \in BOOLEAN :
        LET user_data == get_user_data(TRUE, session[s].username, decoded)
            fetches == refetch(session[s].current_aqi, session[s].location)
            aqi_data == IF fetches
                        THEN get_current_aqi(session[s].location, primary, alt, now)
                        ELSE None
        IN  IF user_data.raised
            THEN /\ view' = [fn |-> "advice", session |-> s, raised |-> TRUE,
                             fetched |-> FALSE, aqi_data |-> None]
                 /\ UNCHANGED session
            ELSE /\ session' = IF Truthy(aqi_data)
                               THEN [session EXCEPT ![s].current_aqi = aqi_data]
                               ELSE session
                 /\ view' = [fn |-> "advice", session |-> s, raised |-> FALSE,
                             fetched |-> fetches, aqi_data |-> aqi_data]
    /\ UNCHANGED <<call, fetch, dbVars, authVars>>

AppSessions == {"tab1"}

AppNext ==
    \E s \in AppSessions :
        \/ AppRegister(s)
        \/ AppLogin(s)
        \/ AppLogout(s)
        \/ AppSearch(s)
        \/ AppCurrentAqiTab(s)
        \/ DashboardRender(s)

SpecApp == InitState /\ [][AppNext]_vars

\* the step is a page run of session s whose fetch gave a reading record
ViewedReading ==
    view'.fn = "render" /\ IsReading(view'.aqi_data)

\* C2 (as claimed): every view of the current AQI by an authenticated user for
\* which the fetcher returns a reading shows the category and color of that
\* AQI and appends exactly one row with the session's username and location
\* and that AQI to aqi_readings.
C2_EveryViewAppendsOneRow ==
    [][ViewedReading =>
        LET s == view'.session
            aqi == view'.aqi_data.aqi
        IN  /\ view'.shown \in SixPairs
            /\ Rank(view'.shown[1]) =
                  1 + Cardinality({b \in {50, 100, 150, 200, 300} : aqi > b})
            /\ Len(aqi_readings') = Len(aqi_readings) + 1
            /\ SubSeq(aqi_readings', 1, Len(aqi_readings)) = aqi_readings
            /\ LET row == aqi_readings'[Len(aqi_readings')] IN
                  /\ row.username = session[s].username
                  /\ row.location = session[s].location
                  /\ row.aqi_value = aqi
      ]_vars

\* C3: a page run whose fetch gives no reading (None; the fetcher returns no
\* error record) leaves aqi_readings as it was, in the main app and in the
\* dashboard page.
C3_NoReadingNoRow ==
    [][(view'.fn = "render" /\ ~IsReading(view'.aqi_data)) => aqi_readings' = aqi_readings]_vars

\* the dashboard was run for a location the provider does not know, after a
\* reading of another run had been stored
C3_Witness ==
    /\ view.fn = "render" /\ view.page = "dashboard" /\ ~IsReading(view.aqi_data)
    /\ Len(aqi_readings) = 1

-----------------------------------------------------------------------------
(* recommendations.py: get_recommendations, detailed mode *)

detailed_good ==
   [ general_detailed |->
    "Air quality is considered satisfactory, and air pollution poses little or no risk. It's a great day for outdoor activities and exercise.",
     general_population |->
    "No special precautions needed. Enjoy your regular outdoor activities.",
     sensitive_groups |->
    "For people with unusual sensitivity to air pollution, consider monitoring how you feel during outdoor activities.",
     children |->
    "Great air quality for children to play outdoors. Perfect time for outdoor school activities.",
     elderly |->
    "Excellent conditions for outdoor walks and activities.",
     outdoor_workers |->
    "Favorable working conditions with minimal air quality concerns.",
     indoor_protection |->
    <<"No special indoor protection needed",
      "Good time to open windows and let fresh air in",
      "Regular housekeeping is sufficient">>,
     outdoor_protection |->
    <<"No special protection required",
      "Regular sun protection still advised",
      "Stay hydrated during outdoor activities">>,
     health_impacts |->
    "Good air quality contributes to overall health and wellbeing. Regular exposure to clean air supports respiratory function and cardiovascular health."]

detailed_moderate ==
   [ general_detailed |->
    "Air quality is acceptable; however, there may be a moderate health concern for a very small number of people who are unusually sensitive to air pollution.",
     general_population |->
    "Most people can continue normal outdoor activities. Pay attention to your body's signals if you start feeling unwell.",
     sensitive_groups |->
    "People with respiratory diseases such as asthma should monitor their condition and limit prolonged outdoor exertion if symptoms occur.",
     children |->
    "Good conditions for outdoor play. Children with asthma should take usual precautions.",
     elderly |->
    "Generally good conditions for outdoor activities. Those with respiratory conditions should monitor how they feel.",
     outdoor_workers |->
    "Regular work activities can continue. Those with respiratory conditions should take breaks if needed.",
     indoor_protection |->
    <<"Regular ventilation is fine",
      "Consider using air purifiers if you have respiratory issues",
      "Standard cleaning practices are adequate">>,
     outdoor_protection |->
    <<"No special protection needed for most people",
      "Sensitive individuals may want to carry relief medication",
      "Regular sun protection and hydration advised">>,
     health_impacts |->
    "Moderate air quality generally has minimal impact on the general population, but may affect very sensitive individuals. Research shows that occasional exposure to these levels is unlikely to cause long-term effects."]

detailed_sensitive ==
   [ general_detailed |->
    "Air quality is unhealthy for sensitive groups. Members of sensitive groups may experience health effects, but the general public is less likely to be affected.",
     general_population |->
    "Consider reducing prolonged or heavy outdoor exertion. Take more breaks during outdoor activities.",
     sensitive_groups |->
    "People with lung disease, older adults, and children should limit prolonged outdoor exertion and monitor symptoms closely.",
     children |->
    "It's okay for children to be outdoors, but limit strenuous activities and watch for symptoms like coughing or difficulty breathing.",
     elderly |->
    "Older adults, especially those with heart or lung conditions, should reduce outdoor activities and monitor their health.",
     outdoor_workers |->
    "Take more frequent breaks in shaded or indoor areas. Stay well-hydrated and watch for symptoms.",
     indoor_protection |->
    <<"Keep windows closed during peak pollution hours",
      "Use air purifiers with HEPA filters if available",
      "Avoid activities that create additional indoor air pollution">>,
     outdoor_protection |->
    <<"Consider wearing N95 masks if you're in a sensitive group",
      "Limit outdoor exercise to times when pollution is lower",
      "Keep rescue medications handy if you have respiratory conditions",
      "Choose less-busy routes for commuting to reduce exposure">>,
     health_impacts |->
    "At this level, sensitive individuals may experience respiratory symptoms like coughing or shortness of breath. Research indicates that repeated exposure can contribute to respiratory inflammation and reduced lung function in sensitive groups."]

detailed_unhealthy ==
   [ general_detailed |->
    "Air quality is unhealthy. Everyone may begin to experience health effects, and members of sensitive groups may experience more serious effects.",
     general_population |->
    "Everyone should limit prolonged outdoor exertion. Consider rescheduling outdoor activities.",
     sensitive_groups |->
    "People with heart or lung disease, older adults, and children should avoid prolonged outdoor exertion and stay indoors when possible.",
     children |->
    "Children should reduce outdoor activities, especially during peak pollution hours. School outdoor activities should be moved indoors.",
     elderly |->
    "Older adults should stay indoors with windows closed and air purifiers running if available.",
     outdoor_workers |->
    "Reduce strenuous work, take frequent breaks indoors, and wear protective masks when possible.",
     indoor_protection |->
    <<"Keep all windows and doors closed",
      "Use air purifiers with HEPA filters in main living areas",
      "Avoid burning candles or using gas stoves",
      "Consider using a humidity-controlled air conditioner",
      "Damp-mop surfaces to reduce settled particles">>,
     outdoor_protection |->
    <<"Wear N95 masks when outdoors",
      "Minimize time spent outdoors, especially during exercise",
      "Use vehicles with cabin air filters set to recirculate",
      "Carry any needed medications",
      "Shower and change clothes after returning indoors">>,
     health_impacts |->
    "Unhealthy air quality can cause respiratory irritation, coughing, shortness of breath, and aggravate existing heart and lung conditions. Research shows that exposure at these levels can cause measurable lung function decreases and inflammatory responses."]

detailed_very_unhealthy ==
   [ general_detailed |->
    "Air quality is very unhealthy. Health alert: The risk of health effects is increased for everyone. People should avoid outdoor activities.",
     general_population |->
    "Avoid all outdoor physical activities. Stay indoors with windows closed and air purifiers running if available.",
     sensitive_groups |->
    "People with heart or lung disease, older adults, children, and pregnant women should strictly avoid outdoor exposure.",
     children |->
    "Keep children indoors. All outdoor school activities should be cancelled or moved indoors.",
     elderly |->
    "Elderly individuals should strictly remain indoors with air filtration. Consider checking in on elderly neighbors.",
     outdoor_workers |->
    "If possible, move work indoors or reschedule. If outdoor work is mandatory, wear proper respiratory protection and take frequent indoor breaks.",
     indoor_protection |->
    <<"Stay indoors with windows and doors sealed",
      "Run air purifiers with HEPA filters on highest setting",
      "Create a clean air room if whole-house filtration isn't available",
      "Change HVAC filters to highest efficiency possible",
      "Use wet cleaning methods for dust and avoid vacuuming",
      "Consider using an N95 mask even indoors if air filtration is poor">>,
     outdoor_protection |->
    <<"Avoid all unnecessary outdoor activities",
      "Wear N95 or preferably N99 masks for any outdoor exposure",
      "Use eye protection outdoors to reduce eye irritation",
      "Shower immediately after returning indoors",
      "Wash clothes exposed to outdoor air separately",
      "Keep all vehicle windows closed with air on recirculate">>,
     health_impacts |->
    "Very unhealthy air quality can cause significant respiratory distress, aggravate heart and lung disease, and reduce exercise tolerance in healthy individuals. Research links exposure at these levels to increased emergency room visits and negative cardiovascular effects even in healthy people."]

detailed_hazardous_without_health_impacts ==
   [ general_detailed |->
    "Air quality is hazardous. Health warning of emergency conditions: everyone is more likely to be affected and should take precautions.",
     general_population |->
    "Everyone should avoid all physical activity outdoors. If possible, remain indoors with air filtration.",
     sensitive_groups |->
    "Extremely dangerous conditions for sensitive individuals. Stay indoors with filtered air and minimize physical activity of any kind.",
     children |->
    "Keep children strictly indoors with activities that don't require physical exertion. Schools should consider closures.",
     elderly |->
    "Dangerous conditions for elderly. Remain indoors, use air filtration, and monitor for any health changes that may require medical attention.",
     outdoor_workers |->
    "Outdoor work should be suspended if possible. If critical work must continue, use highest level of respiratory protection available.",
     indoor_protection |->
    <<"Remain indoors with all windows and doors sealed",
      "Create a clean air shelter in one room with extra sealing and filtration",
      "Run HEPA air purifiers continuously",
      "Seal gaps under doors and around windows if possible",
      "Avoid any activities that generate indoor air pollution",
      "Consider using N95 masks even indoors if adequate filtration is not available",
      "Minimize physical activity to reduce breathing rate">>,
     outdoor_protection |->
    <<"Avoid all outdoor activity if possible",
      "If outdoors is unavoidable, wear N99 or N100 respirators",
      "Cover all exposed skin if possible",
      "Use sealed goggles to protect eyes",
      "Keep outdoor exposure as brief as possible",
      "Shower and change clothes immediately upon returning indoors",
      "Consider temporary relocation if conditions persist">>]

detailed_hazardous ==
   [ general_detailed |->
    "Air quality is hazardous. Health warning of emergency conditions: everyone is more likely to be affected and should take precautions.",
     general_population |->
    "Everyone should avoid all physical activity outdoors. If possible, remain indoors with air filtration.",
     sensitive_groups |->
    "Extremely dangerous conditions for sensitive individuals. Stay indoors with filtered air and minimize physical activity of any kind.",
     children |->
    "Keep children strictly indoors with activities that don't require physical exertion. Schools should consider closures.",
     elderly |->
    "Dangerous conditions for elderly. Remain indoors, use air filtration, and monitor for any health changes that may require medical attention.",
     outdoor_workers |->
    "Outdoor work should be suspended if possible. If critical work must continue, use highest level of respiratory protection available.",
     indoor_protection |->
    <<"Remain indoors with all windows and doors sealed",
      "Create a clean air shelter in one room with extra sealing and filtration",
      "Run HEPA air purifiers continuously",
      "Seal gaps under doors and around windows if possible",
      "Avoid any activities that generate indoor air pollution",
      "Consider using N95 masks even indoors if adequate filtration is not available",
      "Minimize physical activity to reduce breathing rate">>,
     outdoor_protection |->
    <<"Avoid all outdoor activity if possible",
      "If outdoors is unavoidable, wear N99 or N100 respirators",
      "Cover all exposed skin if possible",
      "Use sealed goggles to protect eyes",
      "Keep outdoor exposure as brief as possible",
      "Shower and change clothes immediately upon returning indoors",
      "Consider temporary relocation if conditions persist">>,
     health_impacts |->
    "Hazardous air quality presents emergency health conditions. Exposure can cause serious aggravation of heart or lung disease and premature mortality in people with cardiopulmonary disease and older adults. Healthy people will experience adverse respiratory and cardiovascular effects. Research shows significantly increased hospital admissions during these pollution levels."]

get_recommendations_detailed_strict(aqi_value) ==
    IF aqi_value < 50 THEN detailed_good
    ELSE IF aqi_value < 100 THEN detailed_moderate
    ELSE IF aqi_value < 150 THEN detailed_sensitive
    ELSE IF aqi_value < 200 THEN detailed_unhealthy
    ELSE IF aqi_value < 300 THEN detailed_very_unhealthy
    ELSE detailed_hazardous

\* the "else" branch of "if not detailed"
get_recommendations_detailed(aqi_value) ==
    IF aqi_value <= 50 THEN detailed_good
    ELSE IF aqi_value <= 100 THEN detailed_moderate
    ELSE IF aqi_value <= 150 THEN detailed_sensitive
    ELSE IF aqi_value <= 200 THEN detailed_unhealthy
    ELSE IF aqi_value <= 300 THEN detailed_very_unhealthy
    ELSE detailed_hazardous

CallGetRecommendationsDetailed ==
    \E v \in AqiValues :
        /\ call' = [fn |-> "get_recommendations", aqi |-> v, detailed |-> TRUE,
                    result |-> get_recommendations_detailed(v)]
        /\ UNCHANGED <<fetch, dbVars, procVars, session, view>>

-----------------------------------------------------------------------------
(* utils.py: get_personalized_recommendation.  A health condition is a
   sequence of characters, so that lower() and the substring test "in" are
   computed on the text. *)

\* the options of the "Health Condition" selectbox that reach the function,
\* and four free-text conditions
HealthConditions ==
    {<<"A", "s", "t", "h", "m", "a">>,
     <<"A", "S", "T", "H", "M", "A">>,
     <<"C", "O", "P", "D">>,
     <<"H", "e", "a", "r", "t", " ", "D", "i", "s", "e", "a", "s", "e">>,
     <<"R", "e", "s", "p", "i", "r", "a", "t", "o", "r", "y", " ", "A", "l", "l", "e", "r", "g", "i", "e", "s">>,
     <<"E", "l", "d", "e", "r", "l", "y">>,
     <<"P", "r", "e", "g", "n", "a", "n", "t">>,
     <<"C", "h", "i", "l", "d", "r", "e", "n">>,
     <<"c", "a", "r", "d", "i", "o", "v", "a", "s", "c", "u", "l", "a", "r">>,
     <<"h", "a", "y", " ", "f", "e", "v", "e", "r", " ", "a", "l", "l", "e", "r", "g", "y">>,
     <<"d", "i", "a", "b", "e", "t", "e", "s">>}

UpperToLower ==
    [c \in {"A", "B", "C", "D", "E", "F", "G", "H", "I", "J", "K", "L", "M", "N", "O", "P", "Q", "R", "S", "T", "U", "V", "W", "X", "Y", "Z"} |->
        CASE c = "A" -> "a"
          [] c = "B" -> "b"
          [] c = "C" -> "c"
          [] c = "D" -> "d"
          [] c = "E" -> "e"
          [] c = "F" -> "f"
          [] c = "G" -> "g"
          [] c = "H" -> "h"
          [] c = "I" -> "i"
          [] c = "J" -> "j"
          [] c = "K" -> "k"
          [] c = "L" -> "l"
          [] c = "M" -> "m"
          [] c = "N" -> "n"
          [] c = "O" -> "o"
          [] c = "P" -> "p"
          [] c = "Q" -> "q"
          [] c = "R" -> "r"
          [] c = "S" -> "s"
          [] c = "T" -> "t"
          [] c = "U" -> "u"
          [] c = "V" -> "v"
          [] c = "W" -> "w"
          [] c = "X" -> "x"
          [] c = "Y" -> "y"
          [] c = "Z" -> "z"]

lower_unchanged(s) == s

\* str.lower()
lower(s) ==
    [i \in 1..Len(s) |-> IF s[i] \in DOMAIN UpperToLower THEN UpperToLower[s[i]] ELSE s[i]]

\* the substring test "sub in s"
Contains(sub, s) ==
    \E i \in 1..(Len(s) - Len(sub) + 1) : SubSeq(s, i, i + Len(sub) - 1) = sub

kw_asthma == <<"a", "s", "t", "h", "m", "a">>
kw_copd == <<"c", "o", "p", "d">>
kw_respiratory == <<"r", "e", "s", "p", "i", "r", "a", "t", "o", "r", "y">>
kw_heart == <<"h", "e", "a", "r", "t">>
kw_cardiovascular == <<"c", "a", "r", "d", "i", "o", "v", "a", "s", "c", "u", "l", "a", "r">>
kw_allerg == <<"a", "l", "l", "e", "r", "g">>
kw_pregna == <<"p", "r", "e", "g", "n", "a">>

base_advice(aqi) ==
    IF aqi <= 50 THEN
        "Air quality is good. It's a great day for outdoor activities."
    ELSE IF aqi <= 100 THEN
        "Air quality is moderate. Most people can continue outdoor activities."
    ELSE IF aqi <= 150 THEN
        "Air quality is unhealthy for sensitive groups. Consider reducing prolonged outdoor exertion."
    ELSE IF aqi <= 200 THEN
        "Air quality is unhealthy. Everyone should reduce prolonged outdoor exertion."
    ELSE IF aqi <= 300 THEN
        "Air quality is very unhealthy. Avoid outdoor activities when possible."
    ELSE
        "Air quality is hazardous. Avoid all outdoor activities."

respiratory_advice(aqi) ==
    IF aqi <= 50 THEN
        "With your respiratory condition, you should be comfortable outside today, but always keep your rescue inhaler available."
    ELSE IF aqi <= 100 THEN
        "For people with asthma or COPD, watch for any symptoms while outdoors. Consider keeping outdoor activities moderate in duration."
    ELSE IF aqi <= 150 THEN
        "With your respiratory condition, you should limit prolonged outdoor activities and keep medication handy. Consider wearing an N95 mask if you must be outside."
    ELSE
        "Given your respiratory condition, it's strongly advised to stay indoors with windows closed and air purifier running. If you must go outside, wear an N95 mask and limit exposure time."

heart_advice(aqi) ==
    IF aqi <= 50 THEN
        "With your heart condition, today's air quality is good for your regular outdoor activities."
    ELSE IF aqi <= 100 THEN
        "For those with heart issues, maintain awareness of your exertion level and any unusual symptoms."
    ELSE IF aqi <= 150 THEN
        "With your cardiovascular condition, consider indoor exercise today or reducing intensity of outdoor activities."
    ELSE
        "Given your heart condition, avoid outdoor exertion today. Air pollution can increase stress on your cardiovascular system."

allergy_advice(aqi) ==
    IF aqi <= 50 THEN
        "Allergy sufferers should still monitor personal symptoms, but air quality today is generally favorable."
    ELSE IF aqi <= 100 THEN
        "For allergy sufferers, consider taking your allergy medication before going outdoors today."
    ELSE IF aqi <= 150 THEN
        "With your allergies, consider wearing a mask outside and taking allergy medication beforehand."
    ELSE
        "Given your allergy sensitivity, stay indoors with windows closed and air purifier running if possible."

pregnancy_advice(aqi) ==
    IF aqi <= 50 THEN
        "For expectant mothers, today's air quality is good for normal outdoor activities."
    ELSE IF aqi <= 100 THEN
        "Pregnant women should monitor how they feel during outdoor activities and take breaks as needed."
    ELSE IF aqi <= 150 THEN
        "As an expectant mother, consider limiting prolonged outdoor exposure today to protect both you and your baby."
    ELSE
        "For the health of you and your baby, it's advised to stay indoors today and keep windows closed."

generic_advice ==
    "Given your health situation, pay close attention to any unusual symptoms when outdoors and reduce exposure time if needed."

specific_advice(aqi, condition_lower) ==
    IF \/ Contains(kw_asthma, condition_lower)
       \/ Contains(kw_copd, condition_lower)
       \/ Contains(kw_respiratory, condition_lower)
    THEN respiratory_advice(aqi)
    ELSE IF Contains(kw_heart, condition_lower) \/ Contains(kw_cardiovascular, condition_lower)
    THEN heart_advice(aqi)
    ELSE IF Contains(kw_allerg, condition_lower)
    THEN allergy_advice(aqi)
    ELSE IF Contains(kw_pregna, condition_lower)
    THEN pregnancy_advice(aqi)
    ELSE IF aqi > 100 THEN generic_advice
    ELSE ""

get_personalized_recommendation(aqi, health_condition) ==
    LET condition_lower == lower(health_condition)
        specific == specific_advice(aqi, condition_lower)
    IN  IF specific # ""
        THEN base_advice(aqi) \o "\n\nPersonalized advice: " \o specific
        ELSE base_advice(aqi)

\* the AQI values at and next to the breakpoints, and the ends of the scale
BreakpointAqi ==
    {v \in AqiValues : \E b \in {0, 50, 100, 150, 200, 300, 500} : v - b \in -1..1}

CallGetPersonalizedRecommendation ==
    \E v \in BreakpointAqi, c \in HealthConditions :
        /\ call' = [fn |-> "get_personalized_recommendation", aqi |-> v,
                    health_condition |-> c,
                    result |-> get_personalized_recommendation(v, c)]
        /\ UNCHANGED <<fetch, dbVars, procVars, session, view>>

AdviceNext ==
    \/ CallGetAqiCategory
    \/ CallGetRecommendationsBasic
    \/ CallGetRecommendationsDetailed
    \/ CallGetPersonalizedRecommendation

SpecAdvice == InitState /\ [][AdviceNext]_vars

-----------------------------------------------------------------------------
(* Claims on the recommendation table *)

IsDetailedCall(c) == c.fn = "get_recommendations" /\ c.detailed

DetailedKeys ==
    {"general_detailed", "general_population", "sensitive_groups", "children",
     "elderly", "outdoor_workers", "indoor_protection", "outdoor_protection",
     "health_impacts"}

\* C11 as stated: get_recommendations(v, detailed=True) returns a map with
\* exactly 11 keys, the same key set in all six AQI tiers.
C11_ElevenKeys ==
    IsDetailedCall(call) =>
        /\ Cardinality(DOMAIN call.result) = 11
        /\ \A w \in AqiValues :
              DOMAIN get_recommendations_detailed(w) = DOMAIN call.result

\* C11 (amended): get_recommendations(v, detailed=True) returns a map with
\* exactly the 9 keys general_detailed, general_population, sensitive_groups,
\* children, elderly, outdoor_workers, indoor_protection, outdoor_protection
\* and health_impacts, the same key set in all six AQI tiers.
C11_NineKeys ==
    IsDetailedCall(call) =>
        /\ DOMAIN call.result = DetailedKeys
        /\ Cardinality(DOMAIN call.result) = 9
        /\ \A w \in AqiValues :
              DOMAIN get_recommendations_detailed(w) = DOMAIN call.result

C11_Witness ==
    /\ IsDetailedCall(call) /\ call.aqi = 301
    /\ call.result.health_impacts # detailed_good.health_impacts
    /\ Len(call.result.indoor_protection) = 7

-----------------------------------------------------------------------------
(* utils.py: predict_aqi_trend.  A timestamp is a calendar day and an hour of
   that day; AQI values of the history are whole numbers, the regressor's
   outputs are in hundredths and the returned values in tenths. *)

MinPoints == 5
MaxPoints == 6
MaxDays == 3

HistoryPoints ==
    {[timestamp |-> [day |-> 1, hour |-> 23], aqi |-> 120],
     [timestamp |-> [day |-> 2, hour |-> 0], aqi |-> 40]}

Histories == UNION {[1..n -> HistoryPoints] : n \in 0..MaxPoints}

\* what RandomForestRegressor.predict may give for one future day
RegressorOutputs == {0 - 150, 5, 15, 12000}

\* df['timestamp'].max()
MaxTimestamp(historical_data) ==
    CHOOSE t \in {historical_data[i].timestamp : i \in DOMAIN historical_data} :
        \A i \in DOMAIN historical_data :
            \/ historical_data[i].timestamp.day < t.day
            \/ /\ historical_data[i].timestamp.day = t.day
               /\ historical_data[i].timestamp.hour <= t.hour

\* last_date + timedelta(days=k)
PlusDays(t, k) == [day |-> t.day + k, hour |-> t.hour]

\* strftime('%Y-%m-%d')
strftime_date(t) == t.day

\* round(x, 1): hundredths to tenths, a half goes to the even neighbour
round1(x) ==
    LET q == x \div 10
        r == x % 10
    IN  IF r < 5 THEN q
        ELSE IF r > 5 THEN q + 1
        ELSE IF q % 2 = 0 THEN q ELSE q + 1

max_second(a, b) == b

\* the builtin max of two numbers
max(a, b) == IF a >= b THEN a ELSE b

predict_aqi_trend(historical_data, days_to_predict, predictions) ==
    IF ~Truthy(historical_data) \/ Len(historical_data) < MinPoints
    THEN None
    ELSE LET last_date == MaxTimestamp(historical_data)
             future_dates == [i \in 1..days_to_predict |-> PlusDays(last_date, i)]
         IN  [i \in 1..Len(predictions) |->
                 [date |-> strftime_date(future_dates[i]),
                  aqi |-> max(0, round1(predictions[i]))]]

\* the state before any request, with the arguments of one call chosen
InitTrend ==
    /\ \E h \in Histories, d \in 1..MaxDays :
          call = [fn |-> "args", historical_data |-> h, days_to_predict |-> d]
    /\ fetch = NoCall
    /\ users = << >>
    /\ user_preferences = << >>
    /\ aqi_readings = << >>
    /\ password_resets = {}
    /\ now = 0
    /\ pc = [c \in Conns |-> "idle"]
    /\ frame = [c \in Conns |-> None]
    /\ ret = NoCall
    /\ lastPw = << >>
    /\ session = [s \in Sessions |-> InitSession]
    /\ view = NoCall

PredictAqiTrend ==
    /\ call.fn = "args"
    /\ \E predictions \in [1..call.days_to_predict -> RegressorOutputs] :
          call' = [fn |-> "predict_aqi_trend",
                   historical_data |-> call.historical_data,
                   days_to_predict |-> call.days_to_predict,
                   result |-> predict_aqi_trend(call.historical_data,
                                                call.days_to_predict, predictions)]
    /\ UNCHANGED <<fetch, dbVars, procVars, session, view>>

SpecTrend == InitTrend /\ [][PredictAqiTrend]_vars

IsTrendCall(c) == c.fn = "predict_aqi_trend"

\* C12: predict_aqi_trend returns None for no data and for fewer than 5 points;
\* for 5 or more points it returns exactly days_to_predict entries, the i-th of
\* them dated i calendar days after the day of the latest timestamp of the
\* history, each with an AQI value of at least 0.
C12_TrendContract ==
    IsTrendCall(call) =>
        LET h == call.historical_data
            r == call.result
        IN  IF Len(h) < 5
            THEN r = None
            ELSE /\ Len(r) = call.days_to_predict
                 /\ \A i \in 1..Len(r) :
                       /\ \A j \in 1..Len(h) : h[j].timestamp.day <= r[i].date - i
                       /\ \E j \in 1..Len(h) : h[j].timestamp.day = r[i].date - i
                       /\ r[i].aqi >= 0

C12_Witness ==
    /\ IsTrendCall(call) /\ Len(call.historical_data) = 5
    /\ call.historical_data[1].timestamp.day = 2
    /\ call.historical_data[5].timestamp.day = 1
    /\ call.days_to_predict = 3
    /\ call.result = <<[date |-> 3, aqi |-> 0], [date |-> 4, aqi |-> 2],
                       [date |-> 5, aqi |-> 1200]>>

-----------------------------------------------------------------------------
(* Claims on the fetcher's failure paths *)

ReadingKeys == {"aqi", "pollutants", "location", "timestamp"}

\* C13: whatever the two providers do (an exception anywhere in the request or
\* in the handling of the payload, no result, a status other than ok),
\* get_current_aqi ends without an exception and returns a reading record or None.
C13_NoExceptionEscapes ==
    fetch.fn = "get_current_aqi" =>
        /\ ~fetch.raised
        /\ \/ fetch.result = None
           \/ DOMAIN fetch.result = ReadingKeys

C13_Witness ==
    /\ fetch.fn = "get_current_aqi"
    /\ fetch.primary.kind = "raise" /\ fetch.alt.kind = "raise"
    /\ ~fetch.raised /\ fetch.result = None

-----------------------------------------------------------------------------
(* database.py: the writes and the history query, each as one call.  The
   clock counts ticks; a calendar day has TicksPerDay of them. *)

TicksPerDay == 2
MaxHistory == 2

\* timestamp::date
date_of(t) == t \div TicksPerDay

Days == 0..(MaxTime \div TicksPerDay)

\* where a write may fail: nowhere, in cursor.execute, or in conn.commit
Faults == {"none", "execute", "commit"}

transaction_without_rollback(stored, written, fault) ==
    IF fault = "execute"
    THEN [value |-> FALSE, stored |-> stored]
    ELSE [value |-> fault = "none", stored |-> written]

\* try: execute; commit; return True / except: rollback; return False
transaction(stored, written, fault) ==
    IF fault = "none"
    THEN [value |-> TRUE, stored |-> written]
    ELSE [value |-> FALSE, stored |-> stored]

\* save_aqi_reading called with any username; the foreign key of
\* aqi_readings.username makes the INSERT raise for a username not in users
SaveAqiReading(conns, faults, locations, pollutant_maps) ==
    /\ Len(aqi_readings) < MaxHistory
    /\ \E conn_ok \in conns, fault \in faults, username \in Usernames,
          location \in locations, pollutants \in pollutant_maps :
        LET data == [aqi |-> 42, pollutants |-> pollutants,
                     location |-> location, timestamp |-> now]
            written == save_aqi_reading(aqi_readings, conn_ok, username, location,
                                        42, data, now)
            failure == IF username \notin DOMAIN users THEN "execute" ELSE fault
            t == transaction(aqi_readings, written, failure)
        IN  /\ aqi_readings' = IF conn_ok THEN t.stored ELSE aqi_readings
            /\ ret' = [fn |-> "save_aqi_reading", conn_ok |-> conn_ok,
                       username |-> username, fault |-> failure,
                       value |-> conn_ok /\ t.value]
    /\ UNCHANGED <<pc, frame, users, user_preferences, password_resets, now, lastPw,
                   appVars>>

\* json.loads(pollutants) if pollutants else {}: the driver hands the JSONB
\* value over as text or as the decoded object; json.loads accepts text only
loads_pollutants(pollutants, decoded) ==
    IF decoded
    THEN IF Truthy(pollutants) THEN Raised ELSE Returned(<< >>)
    ELSE Returned(pollutants)

MatchesHistoryFilter(row, username, location, start_date, end_date) ==
    /\ row.username = username
    /\ row.location = location
    /\ date_of(row.timestamp) >= start_date
    /\ date_of(row.timestamp) <= end_date

\* "if not conn: return []"; the SELECT ... ORDER BY timestamp (the table is
\* kept in insertion order, which is the order of the timestamps); the loop
\* over the rows; "except Exception: return []"
get_historical_aqi(table, conn_ok, username, location, start_date, end_date, decoded) ==
    IF ~conn_ok THEN << >>
    ELSE LET Test(row) == MatchesHistoryFilter(row, username, location,
                                               start_date, end_date)
             results == SelectSeq(table, Test)
         IN  IF \E i \in 1..Len(results) :
                    loads_pollutants(results[i].pollutants, decoded).raised
             THEN << >>
             ELSE [i \in 1..Len(results) |->
                      [timestamp |-> results[i].timestamp,
                       aqi |-> results[i].aqi_value,
                       pollutants |->
                           loads_pollutants(results[i].pollutants, decoded).value]]

GetHistoricalAqi(locations) ==
    /\ \E conn_ok \in BOOLEAN, username \in Usernames, location \in locations,
          start_date \in Days, end_date \in Days, decoded \in BOOLEAN :
        ret' = [fn |-> "get_historical_aqi", conn_ok |-> conn_ok,
                username |-> username, location |-> location,
                start_date |-> start_date, end_date |-> end_date,
                decoded |-> decoded,
                value |-> get_historical_aqi(aqi_readings, conn_ok, username, location,
                                             start_date, end_date, decoded)]
    /\ UNCHANGED <<pc, frame, dbVars, appVars>>

HistoryLocations == {"London", "Lundon"}
HistoryPollutants == {<< >>, [pm25 |-> 35]}

ReadingsNext ==
    \/ Tick
    \/ RegisterRun("c1", {"pw123"}, {[i \in 1..SaltHexLen |-> "a"]})
    \/ SaveAqiReading({TRUE}, {"none"}, HistoryLocations, HistoryPollutants)
    \/ GetHistoricalAqi(HistoryLocations)

SpecReadings == InitState /\ [][ReadingsNext]_vars

\* positions of the stored readings that the filter asks for
WantedRows(r) ==
    {i \in 1..Len(aqi_readings) :
        /\ aqi_readings[i].username = r.username
        /\ aqi_readings[i].location = r.location
        /\ r.start_date * TicksPerDay <= aqi_readings[i].timestamp
        /\ aqi_readings[i].timestamp < (r.end_date + 1) * TicksPerDay}

\* C14: with a connection, get_historical_aqi(user, location, start, end)
\* returns exactly the stored readings of that user under exactly that location
\* string whose timestamp falls on a day from start to end, one entry per stored
\* reading, in ascending order of timestamp.
C14_HistoryIsTheFilteredReadings ==
    (ret.fn = "get_historical_aqi" /\ ret.conn_ok) =>
        /\ Len(ret.value) = Cardinality(WantedRows(ret))
        /\ \A k \in 1..Len(ret.value) :
              \E i \in WantedRows(ret) :
                  /\ Cardinality({j \in WantedRows(ret) : j <= i}) = k
                  /\ ret.value[k].timestamp = aqi_readings[i].timestamp
                  /\ ret.value[k].aqi = aqi_readings[i].aqi_value
        /\ \A k \in 1..(Len(ret.value) - 1) :
              ret.value[k].timestamp <= ret.value[k + 1].timestamp

-----------------------------------------------------------------------------
(* Claims on the main app without a database *)

ErrorMessages ==
    {"Invalid username or password", "Passwords do not match",
     "Username already exists or registration failed"}

\* C15: when get_connection has returned None, a click on Login or on Register
\* in the main app ends with an error message and not with an exception that
\* nothing catches.
C15_NoDatabaseGivesMessage ==
    (view.fn = "sidebar" /\ ~view.conn_ok) =>
        /\ ~view.raised
        /\ view.message \in ErrorMessages

-----------------------------------------------------------------------------
(* database.py: the other writes.  Each operator is the table after the
   function's statement; the action adds the connection guard and the
   try/except around execute and commit. *)

update_user_locations_merging(table, username, locations) ==
    IF username \in DOMAIN table
    THEN [table EXCEPT ![username].saved_locations =
             SelectSeq(@, LAMBDA x : \A i \in DOMAIN locations : locations[i] # x)
             \o locations]
    ELSE table

\* UPDATE user_preferences SET saved_locations = ... WHERE username = ...
update_user_locations(table, username, locations) ==
    IF username \in DOMAIN table
    THEN [table EXCEPT ![username].saved_locations = locations]
    ELSE table

\* the UPDATE of the column the preference names
update_user_preference(table, username, preference, value) ==
    IF username \notin DOMAIN table THEN table
    ELSE IF preference = "saved_locations"
    THEN [table EXCEPT ![username].saved_locations = value]
    ELSE IF preference = "unit"
    THEN [table EXCEPT ![username].unit = value]
    ELSE [table EXCEPT ![username].notification_preferences = value]

KnownPreferences == {"saved_locations", "unit", "notification_preferences"}

\* UPDATE users SET last_login = now WHERE username = ...
update_last_login(table, username, time) ==
    IF username \in DOMAIN table
    THEN [table EXCEPT ![username].last_login = time]
    ELSE table

StoreUsers == {"alice"}
StoreLocationLists == {<<"London">>, <<"London", "Paris">>}
Preferences == KnownPreferences \cup {"theme"}

\* the values the pages pass for a preference
PreferenceValues(preference) ==
    CASE preference = "saved_locations" -> {<<"Paris">>}
      [] preference = "unit" -> {"imperial"}
      [] preference = "notification_preferences" -> {[high_aqi_enabled |-> TRUE]}
      [] OTHER -> {"dark"}

WriteResult(fn, conn_ok, username, fault, value) ==
    [fn |-> fn, conn_ok |-> conn_ok, username |-> username, fault |-> fault,
     value |-> value]

UpdateUserLocations ==
    /\ \E conn_ok \in BOOLEAN, fault \in Faults, username \in StoreUsers,
          locations \in StoreLocationLists :
        LET t == transaction(user_preferences,
                             update_user_locations(user_preferences, username, locations),
                             fault)
        IN  /\ user_preferences' = IF conn_ok THEN t.stored ELSE user_preferences
            /\ ret' = WriteResult("update_user_locations", conn_ok, username, fault,
                                  conn_ok /\ t.value)
                       @@ [locations |-> locations]
    /\ UNCHANGED <<pc, frame, users, aqi_readings, password_resets, now, lastPw, appVars>>

\* a preference that names no column returns False before any statement
UpdateUserPreference ==
    /\ \E conn_ok \in BOOLEAN, fault \in Faults, username \in StoreUsers,
          preference \in Preferences :
       \E value \in PreferenceValues(preference) :
        LET t == transaction(user_preferences,
                             update_user_preference(user_preferences, username,
                                                    preference, value),
                             fault)
            known == preference \in KnownPreferences
        IN  /\ user_preferences' =
                   IF conn_ok /\ known THEN t.stored ELSE user_preferences
            /\ ret' = WriteResult("update_user_preference", conn_ok, username,
                                  IF known THEN fault ELSE "none",
                                  conn_ok /\ known /\ t.value)
    /\ UNCHANGED <<pc, frame, users, aqi_readings, password_resets, now, lastPw, appVars>>

UpdateLastLogin ==
    /\ \E conn_ok \in BOOLEAN, fault \in Faults, username \in StoreUsers :
        LET t == transaction(users, update_last_login(users, username, now), fault)
        IN  /\ users' = IF conn_ok THEN t.stored ELSE users
            /\ ret' = WriteResult("update_last_login", conn_ok, username, fault,
                                  conn_ok /\ t.value)
    /\ UNCHANGED <<pc, frame, user_preferences, aqi_readings, password_resets, now,
                   lastPw, appVars>>

StoreNext ==
    \/ RegisterRun("c1", {"pw123"}, {[i \in 1..SaltHexLen |-> "a"]})
    \/ UpdateUserLocations
    \/ UpdateUserPreference
    \/ UpdateLastLogin
    \/ SaveAqiReading(BOOLEAN, Faults, {"London"}, {[pm25 |-> 35]})

SpecStore == InitState /\ [][StoreNext]_vars


\* C16: aqi_readings is append-only: no step of any write of the persistence
\* layer or of registration removes a reading or changes the username,
\* location, aqi_value or timestamp of a stored reading, and the number of
\* rows never decreases.
C16_AppendOnly ==
    [][/\ Len(aqi_readings') >= Len(aqi_readings)
       /\ \A i \in 1..Len(aqi_readings) :
             /\ aqi_readings'[i].username = aqi_readings[i].username
             /\ aqi_readings'[i].location = aqi_readings[i].location
             /\ aqi_readings'[i].aqi_value = aqi_readings[i].aqi_value
             /\ aqi_readings'[i].timestamp = aqi_readings[i].timestamp]_vars

C16_Witness ==
    /\ Len(aqi_readings) = 2
    /\ aqi_readings[1].username = "alice" /\ aqi_readings[2].username = "bob"
    /\ ret.fn = "save_aqi_reading" /\ ret.value


WriteFunctions ==
    {"update_user_locations", "update_user_preference", "save_aqi_reading",
     "update_last_login"}

StoredState == <<users, user_preferences, aqi_readings>>

\* C18: a call of update_user_locations, update_user_preference,
\* save_aqi_reading or update_last_login whose statement or commit fails
\* returns False and leaves users, user_preferences and aqi_readings as they
\* were before the call; so does a call without a connection.
C18_FailedWriteChangesNothing ==
    [][(/\ ret'.fn \in WriteFunctions
        /\ ~ret'.conn_ok \/ ret'.fault # "none")
         => /\ ret'.value = FALSE
            /\ StoredState' = StoredState]_vars

C18_Witness ==
    /\ ret.fn = "update_user_preference" /\ ret.conn_ok /\ ret.fault = "commit"
    /\ ~ret.value
    /\ "alice" \in DOMAIN user_preferences
    /\ user_preferences["alice"].saved_locations = <<"London", "Paris">>
    /\ Len(aqi_readings) = 1

-----------------------------------------------------------------------------
(* Claims on who the stored readings belong to *)

\* every stored reading names a registered user, and so does every
\* authenticated session
ReadingsAndSessionsNameUsers ==
    /\ \A i \in 1..Len(aqi_readings) : aqi_readings[i].username \in DOMAIN users
    /\ \A s \in Sessions :
          session[s].authenticated => session[s].username \in DOMAIN users

\* a reading is appended only by a page run of an authenticated session, under
\* that session's username
SavedBySession ==
    Len(aqi_readings') > Len(aqi_readings) =>
        /\ view'.fn = "render"
        /\ session[view'.session].authenticated
        /\ session[view'.session].username # NoUser
        /\ aqi_readings'[Len(aqi_readings')].username = session[view'.session].username

\* a session becomes authenticated, or changes its username while
\* authenticated, only by a Login of that session whose typed password
\* verify_user accepted for the typed username
AuthenticatedByLogin ==
    \A s \in Sessions :
        (/\ session'[s].authenticated
         /\ ~session[s].authenticated \/ session'[s].username # session[s].username)
          => /\ view'.fn = "sidebar" /\ view'.button = "Login" /\ view'.session = s
             /\ view'.conn_ok
             /\ view'.input[1] = session'[s].username
             /\ verify_user(users, view'.input[1], view'.input[2])

\* C17: every row of aqi_readings names a user of the users table;
\* save_aqi_reading is called only for a session that is authenticated, with
\* that session's username, never None; and a session is authenticated only as
\* the user whose password a Login of that session verified.
C17_ReadingsBelongToVerifiedUsers ==
    /\ []ReadingsAndSessionsNameUsers
    /\ [][SavedBySession /\ AuthenticatedByLogin]_vars

C17_Witness ==
    /\ view.fn = "render" /\ view.page = "dashboard"
    /\ session[view.session].authenticated
    /\ session[view.session].username = "bob"
    /\ Len(aqi_readings) = 2
    /\ aqi_readings[2].username = "bob"
    /\ DOMAIN users = {"alice", "bob"}

-----------------------------------------------------------------------------
(* Claims on the tiers of the advice *)

\* the six advice bundles of each mode, and the six base sentences, in the
\* order of the six categories
BasicTiers ==
    <<basic_good, basic_moderate, basic_sensitive, basic_unhealthy,
      basic_very_unhealthy, basic_hazardous>>
DetailedTiers ==
    <<detailed_good, detailed_moderate, detailed_sensitive, detailed_unhealthy,
      detailed_very_unhealthy, detailed_hazardous>>
BaseSentences ==
    <<base_advice(50), base_advice(100), base_advice(150), base_advice(200),
      base_advice(300), base_advice(301)>>

\* every personalized sentence the function can append
SpecificSentences ==
    {generic_advice} \cup
    UNION {{respiratory_advice(v), heart_advice(v), allergy_advice(v),
            pregnancy_advice(v)} : v \in {50, 100, 150, 151}}

\* the tiers whose base sentence a returned text starts with
BaseTiersOf(text) ==
    {i \in 1..6 :
        \/ text = BaseSentences[i]
        \/ \E specific \in SpecificSentences :
              text = BaseSentences[i] \o "\n\nPersonalized advice: " \o specific}

\* the tier of the call's result, read off the result itself
TiersOfResult(c) ==
    IF c.fn = "get_personalized_recommendation" THEN BaseTiersOf(c.result)
    ELSE IF c.detailed THEN {i \in 1..6 : DetailedTiers[i] = c.result}
    ELSE {i \in 1..6 : BasicTiers[i] = c.result}

IsAdviceCall(c) ==
    c.fn \in {"get_recommendations", "get_personalized_recommendation"}

\* C19: for every AQI value v the bundle of get_recommendations(v), the bundle
\* of get_recommendations(v, detailed=True) and the base sentence of
\* get_personalized_recommendation(v, c) are those of the tier of the category
\* get_aqi_category(v) gives.
C19_SameTierAsCategory ==
    IsAdviceCall(call) =>
        /\ TiersOfResult(call) = {Rank(get_aqi_category(call.aqi)[1])}
        /\ \A v \in AqiValues :
              LET tier == Rank(get_aqi_category(v)[1])
              IN  /\ get_recommendations_basic(v) = BasicTiers[tier]
                  /\ get_recommendations_detailed(v) = DetailedTiers[tier]
                  /\ base_advice(v) = BaseSentences[tier]

C19_Witness ==
    /\ call.fn = "get_personalized_recommendation" /\ call.aqi = 151
    /\ call.health_condition = <<"C", "O", "P", "D">>
    /\ TiersOfResult(call) = {4}


Keywords ==
    {kw_asthma, kw_copd, kw_respiratory, kw_heart, kw_cardiovascular, kw_allerg,
     kw_pregna}

\* two characters that are the same letter, in whatever case
SameLetter(a, b) ==
    \/ a = b
    \/ a \in DOMAIN UpperToLower /\ UpperToLower[a] = b
    \/ b \in DOMAIN UpperToLower /\ UpperToLower[b] = a

\* two texts that differ in the case of their letters only
SameIgnoringCase(a, b) ==
    Len(a) = Len(b) /\ \A i \in 1..Len(a) : SameLetter(a[i], b[i])

\* the condition, whatever its case, holds none of the keywords
NoKeyword(condition) ==
    \A k \in Keywords :
        ~\E i \in 1..(Len(condition) - Len(k) + 1) :
            SameIgnoringCase(SubSeq(condition, i, i + Len(k) - 1), k)

IsPersonalizedCall(c) == c.fn = "get_personalized_recommendation"

\* C20 as stated: the match ignores case; with no keyword in the condition the
\* personalized part is empty up to AQI 100 and the generic caution above; the
\* result is the base advice alone when the personalized part is empty and
\* otherwise the base advice, a blank line and the personalized advice.
C20_BlankLineThenAdvice ==
    IsPersonalizedCall(call) =>
        LET base == base_advice(call.aqi) IN
        /\ \A d \in HealthConditions \cup Keywords :
              SameIgnoringCase(d, call.health_condition) =>
                  get_personalized_recommendation(call.aqi, d) = call.result
        /\ (NoKeyword(call.health_condition) /\ call.aqi <= 100) => call.result = base
        /\ (NoKeyword(call.health_condition) /\ call.aqi > 100) =>
              call.result = base \o "\n\n" \o generic_advice
        /\ \/ call.result = base
           \/ \E specific \in SpecificSentences :
                 call.result = base \o "\n\n" \o specific

\* C20 (amended): the match ignores case; with no keyword in the condition the
\* personalized part is empty up to AQI 100 and the generic caution above; the
\* result is the base advice alone when the personalized part is empty and
\* otherwise the base advice, a blank line, the label "Personalized advice: "
\* and the personalized advice.
C20_BlankLineLabelThenAdvice ==
    IsPersonalizedCall(call) =>
        LET base == base_advice(call.aqi) IN
        /\ \A d \in HealthConditions \cup Keywords :
              SameIgnoringCase(d, call.health_condition) =>
                  get_personalized_recommendation(call.aqi, d) = call.result
        /\ (NoKeyword(call.health_condition) /\ call.aqi <= 100) => call.result = base
        /\ (NoKeyword(call.health_condition) /\ call.aqi > 100) =>
              call.result = base \o "\n\nPersonalized advice: " \o generic_advice
        /\ \/ call.result = base
           \/ \E specific \in SpecificSentences :
                 call.result = base \o "\n\nPersonalized advice: " \o specific

C20_Witness ==
    /\ IsPersonalizedCall(call) /\ call.aqi = 101
    /\ call.health_condition = <<"E", "l", "d", "e", "r", "l", "y">>
    /\ call.result = base_advice(101) \o "\n\nPersonalized advice: " \o generic_advice

-----------------------------------------------------------------------------
(* C21: the category of a negative AQI value *)

\* C21 as stated: for every v < 0, get_aqi_category(v) is the pair of the
\* final else branch, ("Hazardous", "#800000").
C21_NegativeIsHazardous ==
    (IsCategoryCall(call) /\ call.aqi < 0) =>
        call.result = <<"Hazardous", "#800000">>

\* C21, amended: get_aqi_category declares no bounds; a negative value does not
\* exceed 50 and gets the pair of the first branch, ("Good", "#4CAF50"); the
\* final else branch is reached exactly by the values above 300.
C21_NegativeIsGood ==
    IsCategoryCall(call) =>
        /\ call.aqi < 0 => call.result = <<"Good", "#4CAF50">>
        /\ call.result = <<"Hazardous", "#800000">> <=> call.aqi > 300

C21_Witness ==
    /\ IsCategoryCall(call)
    /\ call.aqi = 0 - MinAqiNeg
    /\ call.result = <<"Good", "#4CAF50">>

-----------------------------------------------------------------------------
(* C22: the keys of the pollutant map of a reading record *)

DisplayNames == {"PM2.5", "PM10", "O3", "NO2", "SO2", "CO"}

IsFetch(f) == f.fn = "get_current_aqi"

\* the record was built by get_current_aqi itself, from the OpenAQ measurements
FromPrimary(f) == IsFetch(f) /\ Truthy(f.result) /\ f.primary.kind = "ok"

\* the record was built by get_aqi_from_alternative_source, from the WAQI feed
FromAlternative(f) == IsFetch(f) /\ Truthy(f.result) /\ f.primary.kind = "raise"

\* C22 as stated: every key of the pollutant map of a reading record returned
\* by get_current_aqi is one of the display names PM2.5, PM10, O3, NO2, SO2, CO.
C22_KeysAreDisplayNames ==
    (IsFetch(fetch) /\ Truthy(fetch.result)) =>
        DOMAIN fetch.result.pollutants \subseteq DisplayNames

\* C22, amended: a record that comes from the alternative source has exactly
\* the display names of the provider's keys that are in the fixed table, each
\* with the provider's value, and no other key; a record that comes from the
\* primary source has the provider's parameter names as they are, all of them.
C22_KeysByProvider ==
    /\ FromAlternative(fetch) =>
          LET iaqi == fetch.alt.iaqi
              pollutants == fetch.result.pollutants
              table == {<<"pm25", "PM2.5">>, <<"pm10", "PM10">>, <<"o3", "O3">>,
                        <<"no2", "NO2">>, <<"so2", "SO2">>, <<"co", "CO">>}
          IN  /\ DOMAIN pollutants \subseteq DisplayNames
              /\ \A e \in table :
                    /\ e[2] \in DOMAIN pollutants <=> e[1] \in DOMAIN iaqi
                    /\ e[1] \in DOMAIN iaqi => pollutants[e[2]] = iaqi[e[1]]
    /\ FromPrimary(fetch) =>
          LET results == fetch.primary.results
              pollutants == fetch.result.pollutants
          IN  DOMAIN pollutants = {results[i][1] : i \in DOMAIN results}

C22_Witness ==
    /\ FromAlternative(fetch)
    /\ "h" \in DOMAIN fetch.alt.iaqi
    /\ DOMAIN fetch.result.pollutants = {"PM2.5", "NO2"}

-----------------------------------------------------------------------------
(* C23: what a login writes to the users table *)

\* the step is a click on Login that ended with "Login successful!"
SuccessfulLogin ==
    /\ view'.fn = "sidebar"
    /\ view'.button = "Login"
    /\ ~view'.raised
    /\ view'.message = "Login successful!"

\* C23 (as claimed): after a user logs in through the login form, that user's
\* last_login is set to the time of the login.
C23_LoginSetsLastLogin ==
    [][SuccessfulLogin => users'[view'.input[1]].last_login = now']_vars

-----------------------------------------------------------------------------
(* app.py, pages/dashboard.py and pages/profile.py: the buttons that edit  *)
(* the saved locations.  One action per click, which is one run of the     *)
(* page's script up to its st.rerun().                                     *)

\* a saved-location list holds at most MaxSaved names
MaxSaved == 3

\* the elements of a list
Range(list) == {list[i] : i \in DOMAIN list}

not_in_always(x, list) == TRUE

\* x not in list
not_in(x, list) == x \notin Range(list)

\* list.remove(x): the list without the first occurrence of x
remove(list, x) ==
    LET first == CHOOSE i \in DOMAIN list :
                     list[i] = x /\ \A j \in 1..(i - 1) : list[j] # x
    IN  SubSeq(list, 1, first - 1) \o SubSeq(list, first + 1, Len(list))

\* the stored saved_locations of a user, NoRow without a user_preferences row
NoRow == "<no row>"
Persisted(username) ==
    IF username \in DOMAIN user_preferences
    THEN user_preferences[username].saved_locations ELSE NoRow

\* update_user_locations as a page calls it: "if not conn: return False", then
\* the UPDATE and the commit in their try/except
CallUpdateUserLocations(conn_ok, username, locations, fault) ==
    IF ~conn_ok THEN [value |-> FALSE, stored |-> user_preferences]
    ELSE transaction(user_preferences,
                     update_user_locations(user_preferences, username, locations),
                     fault)

\* what a click on a saved-location button did: the list the page passed to
\* update_user_locations (written), what the call returned (value), and the
\* stored list before the click (before)
LocationsEvent(s, page, button, location, conn_ok, fault, written, value) ==
    [fn |-> "locations", session |-> s, page |-> page, button |-> button,
     username |-> session[s].username, location |-> location,
     conn_ok |-> conn_ok, fault |-> fault, raised |-> FALSE,
     before |-> Persisted(session[s].username),
     written |-> written, value |-> value]

\* the run ended in get_user_data, before any button was looked at
LocationsRaised(s, page, conn_ok) ==
    [fn |-> "locations", session |-> s, page |-> page, button |-> "none",
     username |-> session[s].username, location |-> "none",
     conn_ok |-> conn_ok, fault |-> "none", raised |-> TRUE,
     before |-> Persisted(session[s].username),
     written |-> << >>, value |-> FALSE]

\* "if st.session_state.location not in st.session_state.locations:" and the
\* Save Location button under it, in app.py and in pages/dashboard.py: the
\* page has fetched a reading (aqi_data), which it also caches
ClickSaveLocation(s, page, aqi_data, conn_ok, fault) ==
    LET location == session[s].location
        locations == Append(session[s].locations, location)
        t == CallUpdateUserLocations(conn_ok, session[s].username, locations, fault)
    IN  /\ not_in(location, session[s].locations)
        /\ Len(session[s].locations) < MaxSaved
        /\ session' = [session EXCEPT ![s].current_aqi = aqi_data,
                                      ![s].locations = locations]
        /\ user_preferences' = t.stored
        /\ view' = LocationsEvent(s, page, "Save Location", location, conn_ok, fault,
                                  locations, t.value)

\* the else branch: the Remove Location button
ClickRemoveLocation(s, page, aqi_data, conn_ok, fault) ==
    LET location == session[s].location
        locations == remove(session[s].locations, location)
        t == CallUpdateUserLocations(conn_ok, session[s].username, locations, fault)
    IN  /\ ~not_in(location, session[s].locations)
        /\ session' = [session EXCEPT ![s].current_aqi = aqi_data,
                                      ![s].locations = locations]
        /\ user_preferences' = t.stored
        /\ view' = LocationsEvent(s, page, "Remove Location", location, conn_ok, fault,
                                  locations, t.value)

\* the provider behaviour the buttons are checked with: a reading
SavedAltOutcomes == {[kind |-> "ok", aqi |-> 42, iaqi |-> [pm25 |-> 10]]}

locVars == <<call, fetch, users, aqi_readings, lastPw, authVars>>

\* app.py, Current AQI tab, column 3: the buttons are there when the fetch
\* gave a reading
AppSaveLocation(s, conns, faults) ==
    /\ session[s].authenticated
    /\ \E conn_ok \in conns, fault \in faults, alt \in SavedAltOutcomes :
        LET aqi_data == get_current_aqi(session[s].location, [kind |-> "raise"], alt, now)
        IN  /\ current_aqi_tab_branch(aqi_data) = "reading"
            /\ ClickSaveLocation(s, "app", aqi_data, conn_ok, fault)
    /\ UNCHANGED locVars

AppRemoveLocation(s, conns, faults) ==
    /\ session[s].authenticated
    /\ \E conn_ok \in conns, fault \in faults, alt \in SavedAltOutcomes :
        LET aqi_data == get_current_aqi(session[s].location, [kind |-> "raise"], alt, now)
        IN  /\ current_aqi_tab_branch(aqi_data) = "reading"
            /\ ClickRemoveLocation(s, "app", aqi_data, conn_ok, fault)
    /\ UNCHANGED locVars

\* pages/dashboard.py, Actions column: the buttons are there under "if aqi_data:"
DashboardSaveLocation(s, conns, faults) ==
    /\ authentication_gate(session[s])
    /\ \E conn_ok \in conns, fault \in faults, alt \in SavedAltOutcomes :
        LET aqi_data == get_current_aqi(session[s].location, [kind |-> "raise"], alt, now)
        IN  /\ dashboard_shows_reading(aqi_data)
            /\ ClickSaveLocation(s, "dashboard", aqi_data, conn_ok, fault)
    /\ UNCHANGED locVars

DashboardRemoveLocation(s, conns, faults) ==
    /\ authentication_gate(session[s])
    /\ \E conn_ok \in conns, fault \in faults, alt \in SavedAltOutcomes :
        LET aqi_data == get_current_aqi(session[s].location, [kind |-> "raise"], alt, now)
        IN  /\ dashboard_shows_reading(aqi_data)
            /\ ClickRemoveLocation(s, "dashboard", aqi_data, conn_ok, fault)
    /\ UNCHANGED locVars

\* pages/profile.py, section Saved Locations: "user_data.get('saved_locations',
\* []) if user_data else []"
profile_saved_locations(user_data) ==
    IF Truthy(user_data) THEN DictGet(user_data, "saved_locations", << >>) ELSE << >>

\* the Remove button next to a saved location: the page reads the stored
\* list, removes the location from it and stores the result; the session's
\* own list is not touched
ProfileRemove(s, conns, faults) ==
    /\ session[s].authenticated
    /\ \E conn_ok \in conns, fault \in faults, decoded \in BOOLEAN :
        LET username == session[s].username
            outcome == get_user_data(conn_ok, username, decoded)
        IN  IF outcome.raised
            THEN /\ view' = LocationsRaised(s, "profile", conn_ok)
                 /\ UNCHANGED user_preferences
            ELSE LET saved_locations == profile_saved_locations(outcome.value) IN
                 \E i \in DOMAIN saved_locations :
                    LET location == saved_locations[i]
                        locations == remove(saved_locations, location)
                        t == CallUpdateUserLocations(conn_ok, username, locations, fault)
                    IN  /\ user_preferences' = t.stored
                        /\ view' = LocationsEvent(s, "profile", "Remove", location,
                                                  conn_ok, fault, locations, t.value)
    /\ UNCHANGED <<session, locVars>>

\* the Add Location button with a city name typed in: under a non-empty list
\* it appends a name the list does not hold, under an empty list ("Add Your
\* First Location") it stores the one-element list
ProfileAddLocation(s, conns, faults) ==
    /\ session[s].authenticated
    /\ \E conn_ok \in conns, fault \in faults, decoded \in BOOLEAN,
          new_location \in AppLocations :
        LET username == session[s].username
            outcome == get_user_data(conn_ok, username, decoded)
        IN  IF outcome.raised
            THEN /\ view' = LocationsRaised(s, "profile", conn_ok)
                 /\ UNCHANGED user_preferences
            ELSE LET saved_locations == profile_saved_locations(outcome.value) IN
                 IF Truthy(saved_locations)
                 THEN IF not_in(new_location, saved_locations)
                      THEN LET locations == Append(saved_locations, new_location)
                               t == CallUpdateUserLocations(conn_ok, username,
                                                            locations, fault)
                           IN  /\ Len(saved_locations) < MaxSaved
                               /\ user_preferences' = t.stored
                               /\ view' = LocationsEvent(s, "profile", "Add Location",
                                              new_location, conn_ok, fault,
                                              locations, t.value)
                      ELSE \* "... is already in your saved locations"
                           /\ view' = NoCall
                           /\ UNCHANGED user_preferences
                 ELSE LET locations == <<new_location>>
                          t == CallUpdateUserLocations(conn_ok, username, locations, fault)
                      IN  /\ user_preferences' = t.stored
                          /\ view' = LocationsEvent(s, "profile", "Add Location",
                                         new_location, conn_ok, fault,
                                         locations, t.value)
    /\ UNCHANGED <<session, locVars>>

\* the clicks of one session on the three pages
LocationClicks(s, conns, faults) ==
    \/ AppSaveLocation(s, conns, faults)
    \/ AppRemoveLocation(s, conns, faults)
    \/ DashboardSaveLocation(s, conns, faults)
    \/ DashboardRemoveLocation(s, conns, faults)
    \/ ProfileRemove(s, conns, faults)
    \/ ProfileAddLocation(s, conns, faults)

LocationsNext ==
    \E s \in AppSessions :
        \/ AppRegister(s)
        \/ AppLogin(s)
        \/ AppLogout(s)
        \/ AppSearch(s)
        \/ LocationClicks(s, BOOLEAN, {"none", "commit"})

\* one browser session; the connection may be missing and a commit may fail
SpecLocations == InitState /\ [][LocationsNext]_vars

PagesNext ==
    \E s \in AppSessions :
        \/ AppRegisterOf(s, {TRUE}, Usernames, {"pw123"})
        \/ AppLoginOf(s, {TRUE}, Usernames, Passwords)
        \/ AppLogout(s)
        \/ AppSearch(s)
        \/ AppCurrentAqiTab(s)
        \/ RecommendationsRender(s)
        \/ LocationClicks(s, {TRUE}, {"none"})

\* one browser session on a working database
SpecPages == InitState /\ [][PagesNext]_vars

-----------------------------------------------------------------------------
(* C24: no location name is stored twice *)

NoDuplicates(list) ==
    \A i, j \in DOMAIN list : list[i] = list[j] => i = j

\* C24: after any sequence of Save Location, Remove Location and Add Location
\* clicks on the main app, the dashboard page and the profile page, the stored
\* saved_locations list of every user holds no location name twice.
C24_NoLocationTwice ==
    \A username \in DOMAIN user_preferences :
        NoDuplicates(user_preferences[username].saved_locations)

C24_Witness ==
    /\ view.fn = "locations" /\ view.button = "Add Location" /\ view.value
    /\ Len(view.before) = 1
    /\ Len(user_preferences[view.username].saved_locations) = 2
    /\ \E s \in AppSessions :
          /\ session[s].username = view.username
          /\ Len(session[s].locations) = 1

-----------------------------------------------------------------------------
(* C25: the same user in two browser tabs *)

TabUsers == {"alice"}

TabsNext ==
    \E s \in Sessions :
        \/ AppRegisterOf(s, {TRUE}, TabUsers, {"pw123"})
        \/ AppLoginOf(s, {TRUE}, TabUsers, Passwords)
        \/ AppLogout(s)
        \/ AppSearch(s)
        \/ AppSaveLocation(s, {TRUE}, {"none"})
        \/ AppRemoveLocation(s, {TRUE}, {"none"})

\* two browser sessions on a working database
SpecTabs == InitState /\ [][TabsNext]_vars

\* the step is a Save Location or Remove Location click whose write succeeded
SuccessfulLocationWrite ==
    view'.fn = "locations" /\ view'.page = "app" /\ view'.value

\* C25: a Save Location or Remove Location of a session stores that session's
\* own list with the location appended or removed, whole, whatever list is
\* stored at that moment; with the same user in two tabs a click in one tab
\* so overwrites what the other tab has committed (the lost update is the
\* state of C25_Witness).
C25_WritesWholeSessionList ==
    [][SuccessfulLocationWrite =>
        LET s == view'.session
            mine == session[s].locations
            location == view'.location
        IN  /\ view'.button = "Save Location" => view'.written = Append(mine, location)
            /\ view'.button = "Remove Location" =>
                  view'.written = SelectSeq(mine, LAMBDA x : x # location)
            /\ user_preferences'[view'.username].saved_locations = view'.written
            /\ session'[s].locations = view'.written]_vars

\* a lost update: the tab's Save Location has just removed from the stored
\* list a location that the other tab, logged in as the same user, had saved
\* and still lists
C25_Witness ==
    /\ view.fn = "locations" /\ view.button = "Save Location" /\ view.value
    /\ \E other \in Sessions \ {view.session} :
          /\ session[other].authenticated
          /\ session[other].username = view.username
          /\ \E l \in Range(view.before) :
                /\ l # view.location
                /\ l \in Range(session[other].locations)
                /\ l \notin Range(user_preferences[view.username].saved_locations)

-----------------------------------------------------------------------------
(* C26: the session's list and the stored list *)

\* C26 (as claimed): within a single session, after any sequence of logins
\* and saved-location edits on the main app, the dashboard page and the
\* profile page, st.session_state.locations of an authenticated session
\* equals the stored saved_locations of its user.
C26_SessionListIsStoredList ==
    \A s \in AppSessions :
        session[s].authenticated =>
            session[s].locations = Persisted(session[s].username)

-----------------------------------------------------------------------------
(* C27: which reading the health recommendations are based on *)

\* the page run that has just ended displays the Health Recommendations
ShowsRecommendations ==
    \/ view.fn = "render" /\ view.page = "app"
    \/ view.fn = "advice" /\ ~view.raised

\* C27 (as claimed): whenever recommendations are displayed, the cached
\* reading they are computed from was fetched for the session's selected
\* location.
C27_AdviceIsForSelectedLocation ==
    ShowsRecommendations =>
        LET state == session[view.session]
            shown == health_recommendations_tab(state)
        IN  Truthy(shown) => shown.reading.location = state.location

-----------------------------------------------------------------------------
(* database.py: the reads of the saved locations, next to register_user    *)
(* statement by statement and update_user_locations                        *)

\* get_user_preference: "if not conn: return None"; None for a preference
\* that names no column and for a user without a user_preferences row; the
\* two JSONB columns go through json.loads when truthy
get_user_preference(conn_ok, username, preference, decoded) ==
    IF ~conn_ok THEN Returned(None)
    ELSE IF preference \notin KnownPreferences THEN Returned(None)
    ELSE IF username \notin DOMAIN user_preferences THEN Returned(None)
    ELSE LET value == user_preferences[username][preference] IN
         IF preference \in {"saved_locations", "notification_preferences"}
         THEN loads_if_truthy(value, decoded)
         ELSE Returned(value)

GetUserData ==
    /\ \E conn_ok \in BOOLEAN, username \in StoreUsers, decoded \in BOOLEAN :
        LET outcome == get_user_data(conn_ok, username, decoded) IN
        ret' = [fn |-> "get_user_data", conn_ok |-> conn_ok, username |-> username,
                decoded |-> decoded, raised |-> outcome.raised,
                value |-> IF outcome.raised THEN None ELSE outcome.value]
    /\ UNCHANGED <<pc, frame, dbVars, appVars>>

GetUserPreference ==
    /\ \E conn_ok \in BOOLEAN, username \in StoreUsers, preference \in Preferences,
          decoded \in BOOLEAN :
        LET outcome == get_user_preference(conn_ok, username, preference, decoded) IN
        ret' = [fn |-> "get_user_preference", conn_ok |-> conn_ok,
                username |-> username, preference |-> preference,
                decoded |-> decoded, raised |-> outcome.raised,
                value |-> IF outcome.raised THEN None ELSE outcome.value]
    /\ UNCHANGED <<pc, frame, dbVars, appVars>>

PersistNext ==
    \/ RegisterSelect("c1")
    \/ RegisterInsertUser("c1")
    \/ RegisterInsertPrefs("c1")
    \/ UpdateUserLocations
    \/ GetUserData
    \/ GetUserPreference

SpecPersist == InitState /\ [][PersistNext]_vars

\* C28 (as claimed): whenever update_user_locations(conn, username, L) has
\* returned True for an existing user, a following get_user_data and a
\* following get_user_preference('saved_locations') for that username return
\* L.  The reads are taken with the JSONB columns handed over as text, the
\* representation json.loads accepts.
C28_TrueMeansPersisted ==
    (/\ ret.fn = "update_user_locations"
     /\ ret.value
     /\ ret.username \in DOMAIN users) =>
        LET user_data == get_user_data(TRUE, ret.username, FALSE)
            preference == get_user_preference(TRUE, ret.username, "saved_locations", FALSE)
        IN  /\ ~user_data.raised
            /\ Truthy(user_data.value)
            /\ user_data.value.saved_locations = ret.locations
            /\ ~preference.raised
            /\ preference.value = ret.locations

-----------------------------------------------------------------------------
(* pages/profile.py, section Account Information: the Change Password form *)

\* the names the module database defines: its imports and its functions
database_attributes ==
    {"os", "psycopg2", "Json", "datetime", "json",
     "get_connection", "initialize_database", "get_user_data",
     "update_user_locations", "get_user_preference", "update_user_preference",
     "save_aqi_reading", "get_historical_aqi", "get_user_join_date",
     "update_last_login"}

\* module.name: AttributeError for a name the module does not define
getattr(attributes, name) == IF name \in attributes THEN Returned(name) ELSE Raised

\* what the three password fields may hold
ProfilePasswords == Passwords \cup {""}

ProfileEvent(s, fields, raised, message) ==
    [fn |-> "profile", session |-> s, button |-> "Update Password",
     username |-> session[s].username, current_password |-> fields[1],
     new_password |-> fields[2], confirm_password |-> fields[3],
     raised |-> raised, message |-> message]

\* a run of the profile script with Update Password clicked: the section
\* first shows the user's details (get_user_data, unit.capitalize()), then
\* the form checks its fields and goes through database.auth
ProfileUpdatePassword(s) ==
    /\ session[s].authenticated
    /\ \E conn_ok \in BOOLEAN, decoded \in BOOLEAN, current_password \in ProfilePasswords,
          new_password \in ProfilePasswords, confirm_password \in ProfilePasswords :
        LET username == session[s].username
            fields == <<current_password, new_password, confirm_password>>
            outcome == get_user_data(conn_ok, username, decoded)
        IN  IF outcome.raised
            THEN /\ view' = ProfileEvent(s, fields, TRUE, "TypeError")
                 /\ UNCHANGED <<users, lastPw, password_resets>>
            ELSE IF Truthy(outcome.value) /\ outcome.value.unit = "NULL"
            THEN \* None.capitalize()
                 /\ view' = ProfileEvent(s, fields, TRUE, "AttributeError")
                 /\ UNCHANGED <<users, lastPw, password_resets>>
            ELSE IF new_password # confirm_password
            THEN /\ view' = ProfileEvent(s, fields, FALSE, "New passwords do not match")
                 /\ UNCHANGED <<users, lastPw, password_resets>>
            ELSE IF current_password = "" \/ new_password = ""
            THEN /\ view' = ProfileEvent(s, fields, FALSE,
                                        "Please fill in all password fields")
                 /\ UNCHANGED <<users, lastPw, password_resets>>
            ELSE IF getattr(database_attributes, "auth").raised \/ cursor(conn_ok).raised
            THEN /\ view' = ProfileEvent(s, fields, TRUE, "AttributeError")
                 /\ UNCHANGED <<users, lastPw, password_resets>>
            ELSE IF verify_user(users, username, current_password)
            THEN \* auth.update_password
                 /\ users' = [users EXCEPT ![username].password =
                        hash_password(new_password, [i \in 1..SaltHexLen |-> "b"])]
                 /\ lastPw' = [lastPw EXCEPT ![username] = new_password]
                 /\ password_resets' = {r \in password_resets : r.username # username}
                 /\ view' = ProfileEvent(s, fields, FALSE, "Password updated successfully!")
            ELSE /\ view' = ProfileEvent(s, fields, FALSE, "Current password is incorrect")
                 /\ UNCHANGED <<users, lastPw, password_resets>>
    /\ UNCHANGED <<call, fetch, user_preferences, aqi_readings, now, pc, frame, ret,
                   session>>

ProfileNext ==
    \E s \in AppSessions :
        \/ AppRegisterOf(s, {TRUE}, Usernames, Passwords)
        \/ AppLoginOf(s, {TRUE}, Usernames, Passwords)
        \/ AppLogout(s)
        \/ ProfileUpdatePassword(s)

\* one browser session on the main app and the profile page
SpecProfile == InitState /\ [][ProfileNext]_vars

\* the step is a click on Update Password
UpdatePasswordClick ==
    view'.fn = "profile" /\ view'.button = "Update Password"

\* C29 (as claimed): when the current password is correct and the two new
\* password fields match and are non-empty, the stored hash is replaced so
\* that afterwards verify_user accepts the new password and rejects the old
\* one; when the current password is wrong, the stored hash is unchanged.
C29_ProfilePasswordChange ==
    [][UpdatePasswordClick =>
        LET username == view'.username
            current == view'.current_password
            new == view'.new_password
        IN  /\ (/\ verify_user(users, username, current)
                /\ new = view'.confirm_password
                /\ new # ""
                /\ new # current)
                  => /\ verify_user(users', username, new)
                     /\ ~verify_user(users', username, current)
            /\ ~verify_user(users, username, current)
                  => users'[username].password = users[username].password]_vars


-----------------------------------------------------------------------------
(* C30: when get_current_aqi gives up *)

\* the primary lookup produced no reading for the call
PrimaryGaveNoReading(f) == f.primary.kind # "ok"

\* get_aqi_from_alternative_source produces no reading for the call's location
AlternativeGivesNoReading(f) ==
    ~Truthy(get_aqi_from_alternative_source(f.location, f.alt, now))

\* C30 (as claimed): get_current_aqi returns None only if both the primary
\* lookup and get_aqi_from_alternative_source failed to produce a reading,
\* whether the primary raised or returned no results for the location.
C30_NoneOnlyIfBothFailed ==
    (IsFetch(fetch) /\ ~fetch.raised /\ ~Truthy(fetch.result)) =>
        /\ PrimaryGaveNoReading(fetch)
        /\ AlternativeGivesNoReading(fetch)

====
